---- MODULE Spec2Model ----
(***************************************************************************)
(* Model of torchsnapshot/snapshot.py: Snapshot.take, Snapshot.async_take, *)
(* PendingSnapshot (the background commit over a store-based barrier) and  *)
(* Snapshot.restore, for a process group of WorldSize ranks.               *)
(*                                                                         *)
(* Values are opaque tokens <<owner, generation, path, index>>: the code   *)
(* only moves values, it never computes with them.                         *)
(***************************************************************************)
EXTENDS Integers, Sequences, FiniteSets, TLC

\* ---------------------------------------------------------------- bounds
WorldSize == 2
MaxTakes == 2
\* take/async_take calls of a run that follows the data of one snapshot
DataTakes == 1
\* generations of values the application writes into its state after the
\* initial generation 0
MaxGen == 1
\* elements of the dense tensor "w" and of the sharded tensor "e"
TensorLen == 2
\* elements per chunk produced by ChunkedTensorIOPreparer.chunk_tensor
ChunkElems == 1

Ranks == 0 .. (WorldSize - 1)
Takes == 1 .. MaxTakes
Gens == 1 .. MaxGen
\* snapshot locations a caller may pass as `path`
PathSeq == <<"p1", "p2">>
Paths == {PathSeq[i] : i \in 1 .. Len(PathSeq)}

\* leader_rank passed to LinearBarrier by _complete_snapshot
LeaderRank == 0
\* dtype_to_element_size(string_to_dtype(chunk.dtype)) of the tensors
ElementSize == 4

\* The keys of a flattened state dict, in dict order: an int, a dense tensor,
\* a ShardedTensor.
FlatKeys == <<"n", "w", "e">>

Range(s) == {s[i] : i \in 1 .. Len(s)}

\* ------------------------------------------------------------ app state values
IntVal(v) == [type |-> "int", v |-> v]
TensorVal(d) == [type |-> "tensor", data |-> d]
ShardedVal(S) == [type |-> "sharded", shards |-> S]

\* A sharding layout gives the owner of every element of "e".
Layouts == [0 .. (TensorLen - 1) -> Ranks]

\* The local shards of rank r: maximal runs of consecutive elements it owns.
RunStarts(l, r) ==
    {i \in DOMAIN l : l[i] = r /\ (i = 0 \/ l[i - 1] # r)}

RunEnd(l, r, i) ==
    CHOOSE j \in i .. (TensorLen - 1) :
        /\ \A m \in i .. j : l[m] = r
        /\ (j = TensorLen - 1 \/ l[j + 1] # r)

\* The state dict of rank r holding generation g values: the paths in `shared`
\* hold the same value on every rank, the others a value of their own.
Fresh(r, g, l, shared) ==
    LET own(p) == IF p \in shared THEN "all" ELSE ToString(r)
    IN  [p \in Range(FlatKeys) |->
            IF p = "n" THEN IntVal(<<own(p), g, p, 0>>)
            ELSE IF p = "w"
                 THEN TensorVal([i \in 1 .. TensorLen |-> <<own(p), g, p, i - 1>>])
                 ELSE ShardedVal({[offsets |-> i,
                                   sizes |-> RunEnd(l, r, i) - i + 1,
                                   data |-> [m \in 1 .. (RunEnd(l, r, i) - i + 1) |->
                                                <<"all", g, p, i + m - 1>>]]
                                  : i \in RunStarts(l, r)})]

\* ------------------------------------------------ replicated paths (take, §4.1)
\* fnmatch.fnmatch(path, pattern) for literal patterns and "**"
Fnmatch(path, pattern) == pattern = "**" \/ pattern = path

\* a coalescing that keeps every pattern some rank supplied
CoalesceUnion(global_replicated) ==
    UNION {global_replicated[r] : r \in Ranks}

\* _coalesce_replicated: the patterns every rank supplied
CoalesceReplicated(global_replicated) ==
    {pat \in UNION {global_replicated[r] : r \in Ranks} :
        \A r \in Ranks : pat \in global_replicated[r]}

\* the keys of `flattened`, in dict order
FlatOrder(flattened) == SelectSeq(FlatKeys, LAMBDA p : p \in DOMAIN flattened)

\* the rank-local candidate list of _calculate_replicated_entries
LocalReplicated(flattened, replicated) ==
    SelectSeq(FlatOrder(flattened),
              LAMBDA p : /\ \E pat \in replicated : Fnmatch(p, pat)
                         /\ flattened[p].type # "sharded")

\* rank 0's candidate list, not filtered by path_count
LocalCandidatesOnly(flats, replicated) == LocalReplicated(flats[0], replicated)

\* _calculate_replicated_entries: rank 0 keeps the candidates every rank has
\* and broadcasts the list
CalculateReplicatedEntries(flats, replicated) ==
    LET path_count(p) ==
            Cardinality({r \in Ranks : p \in Range(LocalReplicated(flats[r], replicated))})
    IN  SelectSeq(LocalReplicated(flats[0], replicated),
                  LAMBDA p : path_count(p) = WorldSize)

\* ------------------------------------------------------------------- chunking
RECURSIVE ChunkFrom(_)
ChunkFrom(o) ==
    IF o >= TensorLen THEN <<>>
    ELSE LET s == IF o + ChunkElems <= TensorLen THEN ChunkElems ELSE TensorLen - o
         IN  <<[offsets |-> o, sizes |-> s]>> \o ChunkFrom(o + s)

\* ChunkedTensorIOPreparer.chunk_tensor: consecutive chunks along dim 0
ChunkTensor(obj) == ChunkFrom(0)

\* the loop of _take_impl that chunks the non-sharded tensors
ChunkingInstructions(flattened) ==
    [p \in {q \in DOMAIN flattened : flattened[q].type = "tensor"} |->
        ChunkTensor(flattened[p])]

\* ----------------------------------------------- _partition_replicated_paths
ChunkBytes(chunk) == chunk.sizes * ElementSize

\* (path, chunk, size) of every chunk of the chunked replicated paths
RECURSIVE ChunkedPaths(_, _)
ChunkedPaths(replicated_paths, ci) ==
    IF replicated_paths = <<>> THEN <<>>
    ELSE LET path == Head(replicated_paths)
             mine == IF path \in DOMAIN ci
                     THEN [i \in 1 .. Len(ci[path]) |->
                               [path |-> path, chunk |-> ci[path][i],
                                size |-> ChunkBytes(ci[path][i])]]
                     ELSE <<>>
         IN  mine \o ChunkedPaths(Tail(replicated_paths), ci)

NonChunkedPaths(replicated_paths, ci) ==
    SelectSeq(replicated_paths, LAMBDA p : p \notin DOMAIN ci)

\* chunked_paths.sort(key=size, reverse=True): stable, descending
RECURSIVE InsertDesc(_, _)
InsertDesc(sorted, t) ==
    IF sorted = <<>> THEN <<t>>
    ELSE IF Head(sorted).size >= t.size
         THEN <<Head(sorted)>> \o InsertDesc(Tail(sorted), t)
         ELSE <<t>> \o sorted

\* a list left in its input order
KeepInputOrder(ts) == ts

RECURSIVE SortDesc(_)
SortDesc(ts) ==
    IF ts = <<>> THEN <<>>
    ELSE InsertDesc(SortDesc(SubSeq(ts, 1, Len(ts) - 1)), ts[Len(ts)])

\* a choice of rank that ignores the byte totals
FirstRank(sizes) == 0

\* np.argmin(sizes): the first index holding the minimum
ArgMin(sizes) ==
    CHOOSE r \in DOMAIN sizes :
        /\ \A q \in DOMAIN sizes : sizes[r] <= sizes[q]
        /\ \A q \in DOMAIN sizes : sizes[q] = sizes[r] => r <= q

\* the greedy loop: acc = [chunks: rank -> path -> chunk list, sizes: rank -> bytes]
RECURSIVE Greedy(_, _)
Greedy(ts, acc) ==
    IF ts = <<>> THEN acc
    ELSE LET t == Head(ts)
             min_rank == ArgMin(acc.sizes)
             old == acc.chunks[min_rank]
             new == IF t.path \in DOMAIN old
                    THEN [old EXCEPT ![t.path] = Append(@, t.chunk)]
                    ELSE (t.path :> <<t.chunk>>) @@ old
         IN  Greedy(Tail(ts),
                    [chunks |-> [acc.chunks EXCEPT ![min_rank] = new],
                     sizes |-> [acc.sizes EXCEPT ![min_rank] = @ + t.size]])

\* an assignment that gives every rank every non-chunked path
EveryRankTakesAll(nonchunked_paths, world_size, rank) == nonchunked_paths

\* a round-robin that counts the paths from one
RoundRobinFromOne(nonchunked_paths, world_size, rank) ==
    LET idxs == {i \in 1 .. Len(nonchunked_paths) : i % world_size = rank}
    IN  SelectSeq(nonchunked_paths,
                  LAMBDA p : \E i \in idxs : nonchunked_paths[i] = p)

\* the round-robin loop over the non-chunked replicated paths
RoundRobin(nonchunked_paths, world_size, rank) ==
    LET idxs == {i \in 1 .. Len(nonchunked_paths) : (i - 1) % world_size = rank}
    IN  SelectSeq(nonchunked_paths,
                  LAMBDA p : \E i \in idxs : nonchunked_paths[i] = p)

\* a partition that hands every non-chunked replicated path to every rank
PathsToEveryRank(replicated_paths, ci, world_size) ==
    LET ranks == 0 .. (world_size - 1)
        greedy == Greedy(SortDesc(ChunkedPaths(replicated_paths, ci)),
                         [chunks |-> [r \in ranks |-> <<>>],
                          sizes |-> [r \in ranks |-> 0]])
    IN  [r \in ranks |->
            [chunks |-> greedy.chunks[r],
             paths |-> NonChunkedPaths(replicated_paths, ci)]]

PartitionReplicatedPaths(replicated_paths, ci, world_size) ==
    LET ranks == 0 .. (world_size - 1)
        greedy == Greedy(SortDesc(ChunkedPaths(replicated_paths, ci)),
                         [chunks |-> [r \in ranks |-> <<>>],
                          sizes |-> [r \in ranks |-> 0]])
    IN  [r \in ranks |->
            [chunks |-> greedy.chunks[r],
             paths |-> RoundRobin(NonChunkedPaths(replicated_paths, ci), world_size, r)]]

\* a rank that partitions on its own, with its own chunking instructions
PartitionLocally(rank, replicated_paths, ci0, ci, flattened) ==
    LET mine == PartitionReplicatedPaths(replicated_paths, ci, WorldSize)[rank]
        rest == {p \in DOMAIN flattened : p \notin Range(replicated_paths)}
    IN  [chunks |-> [p \in {q \in rest : q \in DOMAIN ci} |-> ci[p]] @@ mine.chunks,
         paths |-> mine.paths \o
                   SelectSeq(FlatOrder(flattened),
                             LAMBDA p : p \in rest /\ p \notin DOMAIN ci)]

\* all_partition_results of _partition_logical_paths: rank 0 computes the
\* partition from its own chunking instructions, the other ranks hold None
AllPartitionResults(rank, replicated_paths, ci, world_size) ==
    IF rank = 0
    THEN [ran |-> TRUE,
          results |-> PartitionReplicatedPaths(replicated_paths, ci, world_size)]
    ELSE [ran |-> FALSE, results |-> <<>>]

\* _partition_logical_paths on `rank`: the scattered element of rank 0's
\* partition plus the rank's own non-replicated chunks and paths
PartitionLogicalPaths(rank, replicated_paths, ci0, ci, flattened) ==
    LET mine == PartitionReplicatedPaths(replicated_paths, ci0, WorldSize)[rank]
        rest == {p \in DOMAIN flattened : p \notin Range(replicated_paths)}
    IN  [chunks |-> [p \in {q \in rest : q \in DOMAIN ci} |-> ci[p]] @@ mine.chunks,
         paths |-> mine.paths \o
                   SelectSeq(FlatOrder(flattened),
                             LAMBDA p : p \in rest /\ p \notin DOMAIN ci)]

\* ------------------------------------------------------- io_preparer (writes)
\* get_storage_path: where the value of a logical path is stored
StoragePrefix(obj, rank, replicated) ==
    IF obj.type = "sharded" THEN "sharded"
    ELSE IF replicated THEN "replicated" ELSE ToString(rank)

Location(prefix, logical_path, offsets) == <<prefix, logical_path, offsets>>

\* ChunkedTensorIOPreparer.prepare_write: one chunk entry and one write request
\* (a staged copy of the chunk's elements) per chunk of the instruction
ChunkedPrepareWrite(prefix, logical_path, tensor, chunking_instruction, replicated) ==
    [entry |->
        [type |-> "ChunkedTensor",
         chunks |-> [i \in 1 .. Len(chunking_instruction) |->
                        [offsets |-> chunking_instruction[i].offsets,
                         sizes |-> chunking_instruction[i].sizes,
                         location |-> Location(prefix, logical_path,
                                               chunking_instruction[i].offsets)]],
         replicated |-> replicated],
     reqs |->
        {[path |-> Location(prefix, logical_path, c.offsets),
          buf |-> SubSeq(tensor.data, c.offsets + 1, c.offsets + c.sizes)]
         : c \in Range(chunking_instruction)}]

\* prepare_write for the values that are not chunked: a primitive is stored
\* inline in its entry, a ShardedTensor writes its local shards
PrepareWrite(obj, logical_path, rank, replicated) ==
    IF obj.type = "int"
    THEN [entry |-> [type |-> "Primitive", value |-> obj.v, replicated |-> replicated],
          reqs |-> {}]
    ELSE [entry |->
             [type |-> "ShardedTensor",
              shards |-> {[offsets |-> s.offsets, sizes |-> s.sizes,
                           location |-> Location("sharded", logical_path, s.offsets)]
                          : s \in obj.shards},
              replicated |-> FALSE],
          reqs |-> {[path |-> Location("sharded", logical_path, s.offsets),
                     buf |-> s.data] : s \in obj.shards}]

\* ------------------------------------------------------------------ _take_impl
\* prepare loops that write every path the rank holds, whatever the
\* partition gave the rank
PrepareEveryPath(rank, replicated_paths, ci0, ci, flattened) ==
    LET replicated_set == Range(replicated_paths)
        chunked(p) == ChunkedPrepareWrite(
                          StoragePrefix(flattened[p], rank, p \in replicated_set),
                          p, flattened[p], ci[p], p \in replicated_set)
        plain(p) == PrepareWrite(flattened[p], p, rank, p \in replicated_set)
        prepared(p) == IF p \in DOMAIN ci THEN chunked(p) ELSE plain(p)
    IN  [object_entries |-> [p \in DOMAIN flattened |-> prepared(p).entry],
         write_reqs |-> UNION {prepared(p).reqs : p \in DOMAIN flattened}]

\* The two prepare loops of _take_impl on `rank`, after the partition: ci0 and
\* ci are the chunking instructions of rank 0 and of the rank.  Result: the
\* rank's object_entries and write_reqs.
PrepareWrites(rank, replicated_paths, ci0, ci, flattened) ==
    LET replicated_set == Range(replicated_paths)
        part == PartitionLogicalPaths(rank, replicated_paths, ci0, ci, flattened)
        chunked(p) == ChunkedPrepareWrite(
                          StoragePrefix(flattened[p], rank, p \in replicated_set),
                          p, flattened[p], part.chunks[p], p \in replicated_set)
        plain(p) == PrepareWrite(flattened[p], p, rank, p \in replicated_set)
        prepared(p) == IF p \in DOMAIN part.chunks THEN chunked(p) ELSE plain(p)
        paths == DOMAIN part.chunks \cup Range(part.paths)
    IN  [object_entries |-> [p \in paths |-> prepared(p).entry],
         write_reqs |-> UNION {prepared(p).reqs : p \in paths}]

\* The part of _take_impl from _calculate_replicated_entries to the write
\* requests, on `rank`: flats[r] is the flattened state of rank r, replicated
\* the coalesced patterns.  Result: the rank's object_entries and write_reqs.
PrepareRank(rank, flats, replicated) ==
    PrepareWrites(rank, CalculateReplicatedEntries(flats, replicated),
                  ChunkingInstructions(flats[0]),
                  ChunkingInstructions(flats[rank]), flats[rank])

\* manifest.is_replicated
IsReplicated(entry) == entry.type # "ShardedTensor" /\ entry.replicated

\* chunks.sort(key=lambda x: x.offsets)
RECURSIVE InsertByOffsets(_, _)
InsertByOffsets(sorted, c) ==
    IF sorted = <<>> THEN <<c>>
    ELSE IF Head(sorted).offsets <= c.offsets
         THEN <<Head(sorted)>> \o InsertByOffsets(Tail(sorted), c)
         ELSE <<c>> \o sorted

RECURSIVE SortByOffsets(_)
SortByOffsets(cs) ==
    IF cs = <<>> THEN <<>>
    ELSE InsertByOffsets(SortByOffsets(SubSeq(cs, 1, Len(cs) - 1)), cs[Len(cs)])

\* the chunks of path p in the manifests of ranks rank .. WorldSize-1, in order
RECURSIVE ChunksFrom(_, _, _)
ChunksFrom(manifests, p, rank) ==
    IF rank >= WorldSize THEN <<>>
    ELSE (IF p \in DOMAIN manifests[rank] /\ IsReplicated(manifests[rank][p])
             /\ manifests[rank][p].type = "ChunkedTensor"
          THEN manifests[rank][p].chunks ELSE <<>>)
         \o ChunksFrom(manifests, p, rank + 1)

\* the assertion of _gather_manifest fails: a rank emits a replicated entry
\* that is not a ChunkedTensorEntry for a path a lower rank has emitted
GatherRaises(manifests) ==
    \E p \in Range(FlatKeys), q \in Ranks :
        /\ p \in DOMAIN manifests[q] /\ IsReplicated(manifests[q][p])
        /\ manifests[q][p].type # "ChunkedTensor"
        /\ \E r \in Ranks :
              r < q /\ p \in DOMAIN manifests[r] /\ IsReplicated(manifests[r][p])

\* a merge that leaves the chunks in the order the ranks contributed them
MergedUnsorted(manifests, p) == ChunksFrom(manifests, p, 0)

\* the chunk list of a replicated ChunkedTensorEntry after the merge: the
\* chunks of every rank's entry, in rank order, then sorted by offsets
MergedChunks(manifests, p) == SortByOffsets(ChunksFrom(manifests, p, 0))

\* variant of _gather_manifest that keeps the first emitter's entry as it is,
\* without the chunks of the other ranks
GatherFirstOnly(manifests) ==
    LET emitters(p) == {r \in Ranks : p \in DOMAIN manifests[r]
                                        /\ IsReplicated(manifests[r][p])}
        replicated_paths == {p \in UNION {DOMAIN manifests[r] : r \in Ranks} :
                                emitters(p) # {}}
        first(p) == manifests[CHOOSE r \in emitters(p) :
                                 \A q \in emitters(p) : r <= q][p]
    IN  [key \in {<<r, p>> : r \in Ranks,
                             p \in UNION {DOMAIN manifests[q] : q \in Ranks}} \cap
                 {k \in Ranks \X Range(FlatKeys) :
                     k[2] \in DOMAIN manifests[k[1]] \/ k[2] \in replicated_paths} |->
            IF key[2] \in replicated_paths THEN first(key[2])
            ELSE manifests[key[1]][key[2]]]

\* _gather_manifest: the entry of a replicated path is the one of the first rank
\* that emits it, with the chunks of the later ranks merged in and sorted; every
\* rank's manifest gets every replicated entry and goes under the rank's prefix
GatherManifest(manifests) ==
    LET emitters(p) == {r \in Ranks : p \in DOMAIN manifests[r]
                                        /\ IsReplicated(manifests[r][p])}
        replicated_paths == {p \in UNION {DOMAIN manifests[r] : r \in Ranks} :
                                emitters(p) # {}}
        first(p) == manifests[CHOOSE r \in emitters(p) :
                                 \A q \in emitters(p) : r <= q][p]
        replicated_entries(p) ==
            IF first(p).type = "ChunkedTensor"
            THEN [first(p) EXCEPT !.chunks = MergedChunks(manifests, p)]
            ELSE first(p)
    IN  [key \in {<<r, p>> : r \in Ranks,
                             p \in UNION {DOMAIN manifests[q] : q \in Ranks}} \cap
                 {k \in Ranks \X Range(FlatKeys) :
                     k[2] \in DOMAIN manifests[k[1]] \/ k[2] \in replicated_paths} |->
            IF key[2] \in replicated_paths THEN replicated_entries(key[2])
            ELSE manifests[key[1]][key[2]]]

\* SnapshotMetadata(version, world_size, manifest) built by _take_impl
TakeMetadata(flats, replicated) ==
    [version |-> "version",
     world_size |-> WorldSize,
     manifest |-> GatherManifest(
                      [r \in Ranks |-> PrepareRank(r, flats, replicated).object_entries])]

\* sync_execute_write_reqs: the buffers of the rank's write requests are staged
\* when _take_impl returns; the storage writes are the pending I/O work
TakeWriteReqs(rank, flats, replicated) == PrepareRank(rank, flats, replicated).write_reqs

\* ------------------------------------------------------------ storage plugin
\* no .snapshot_metadata under a snapshot location
NoMeta == [absent |-> TRUE]

\* storage.write of a set of requests: an object per location, last write wins
WriteAll(objs, write_reqs) ==
    [loc \in DOMAIN objs \cup {q.path : q \in write_reqs} |->
        IF \E q \in write_reqs : q.path = loc
        THEN (CHOOSE q \in write_reqs : q.path = loc).buf
        ELSE objs[loc]]

\* ---------------------------------------------------- manifest, io_preparer (reads)
\* get_available_entries: the entries rank `rank` may read: its own, the
\* replicated ones, and the sharded ones with the shards of every rank
GetAvailableEntries(manifest, rank) ==
    LET visible(key) == \/ key[1] = rank
                        \/ IsReplicated(manifest[key])
                        \/ manifest[key].type = "ShardedTensor"
        holders(p) == {key \in DOMAIN manifest : key[2] = p /\ visible(key)}
        one(p) == manifest[CHOOSE key \in holders(p) :
                              key[1] = rank \/ <<rank, p>> \notin DOMAIN manifest]
    IN  [p \in {key[2] : key \in {k \in DOMAIN manifest : visible(k)}} |->
            IF one(p).type = "ShardedTensor"
            THEN [one(p) EXCEPT !.shards =
                     UNION {manifest[key].shards : key \in holders(p)}]
            ELSE one(p)]

\* the persisted pieces (chunks or shards) that hold element i
Covering(parts, i) == {c \in parts : c.offsets <= i /\ i < c.offsets + c.sizes}

\* every element lo .. hi can be read from an object that was written
CanRead(parts, objs, lo, hi) ==
    \A i \in lo .. hi :
        \E c \in Covering(parts, i) :
            c.location \in DOMAIN objs /\ Len(objs[c.location]) = c.sizes

Elem(parts, objs, i) ==
    LET c == CHOOSE c \in Covering(parts, i) :
                 c.location \in DOMAIN objs /\ Len(objs[c.location]) = c.sizes
    IN  objs[c.location][i - c.offsets + 1]

Parts(entry) ==
    IF entry.type = "ChunkedTensor" THEN Range(entry.chunks)
    ELSE IF entry.type = "ShardedTensor" THEN entry.shards ELSE {}

\* the read requests of prepare_read(entry, obj_out) can all be served
ReadOK(entry, obj, objs) ==
    IF obj.type = "int" THEN entry.type = "Primitive"
    ELSE IF obj.type = "tensor"
         THEN entry.type = "ChunkedTensor"
              /\ CanRead(Parts(entry), objs, 0, Len(obj.data) - 1)
         ELSE entry.type = "ShardedTensor"
              /\ \A s \in obj.shards :
                     CanRead(Parts(entry), objs, s.offsets, s.offsets + s.sizes - 1)

\* the value the read requests leave in obj_out (or materialize)
ReadEntry(entry, obj, objs) ==
    IF obj.type = "int" THEN IntVal(entry.value)
    ELSE IF obj.type = "tensor"
         THEN TensorVal([i \in 1 .. Len(obj.data) |-> Elem(Parts(entry), objs, i - 1)])
         ELSE ShardedVal({[s EXCEPT !.data =
                              [m \in 1 .. s.sizes |->
                                  Elem(Parts(entry), objs, s.offsets + m - 1)]]
                          : s \in obj.shards})

\* _load_stateful raises: a requested path is not available, or a read fails
LoadRaises(flattened, available_entries, objs) ==
    \E p \in DOMAIN flattened :
        \/ p \notin DOMAIN available_entries
        \/ ~ReadOK(available_entries[p], flattened[p], objs)

\* _load_stateful: the state dict handed to load_state_dict
LoadStateful(flattened, available_entries, objs) ==
    [p \in DOMAIN flattened |-> ReadEntry(available_entries[p], flattened[p], objs)]

\* ------------------------------------------------------------------- state
VARIABLES
    app,        \* app[r]: the state dict of rank r's stateful (flattened)
    layout,     \* the sharding layout of the ShardedTensor "e"
    hints,      \* hints[r]: the `replicated` patterns rank r passes to a take
    limit,      \* the number of take/async_take calls the application makes
    ntakes,     \* number of take/async_take calls made so far (by every rank)
    tmode,      \* tmode[k]: "sync" (take), "async" (async_take), "none"
    tpath,      \* tpath[k]: the coalesced path of take k
    snap,       \* snap[k][r]: the flattened state of rank r when take k was made
    meta,       \* meta[k]: the SnapshotMetadata _take_impl returned
    reqs,       \* reqs[k][r]: the write requests of rank r's pending_io_work
    ioState,    \* ioState[k][r]: "pending", "ok" or "failed" pending_io_work
    mpc,        \* mpc[r]: position of rank r's calling thread
    sres,       \* sres[k][r]: outcome of the synchronous take on rank r
    tpc,        \* tpc[k][r]: position of rank r's background thread of take k
    metaBy,     \* metaBy[k]: the ranks that wrote .snapshot_metadata, in order
    excInfo,    \* excInfo[k][r]: PendingSnapshot.exc_info is not None
    doneFlag,   \* doneFlag[k][r]: PendingSnapshot._done
    store,      \* store[p][r]: the barrier key of rank r under prefix torchsnapshot_p
    storage,    \* storage[p]: the objects and the metadata file under location p
    lastCall,   \* the last call of wait(), done() or restore and its outcome
    fn,         \* a helper of the take applied to its arguments: [op, args, done, out]
    job,        \* a restore or read_object in another world, or a batch of I/O requests
    run         \* one call of take, async_take or restore seen step by step

input == <<app, layout, hints, limit>>
calls == <<ntakes, tmode, tpath, snap, meta>>
sync == <<mpc, sres>>
thread == <<tpc, excInfo, doneFlag, store>>
disk == <<reqs, ioState, metaBy, storage>>
seen == <<lastCall>>
aux == <<fn, job, run>>
vars == <<input, calls, sync, thread, disk, seen, aux>>

\* the paths that hold the same value on every rank: those every rank hints
Shared == {p \in Range(FlatKeys) : \E pat \in CoalesceReplicated(hints) : Fnmatch(p, pat)}

\* ------------------------------------------------------ dist_store.LinearBarrier
PeerRanks == Ranks \ {LeaderRank}

\* arrive(): the leader waits for the key of every peer, a peer does not wait
ArriveReady(p, rank) ==
    IF rank = LeaderRank THEN \A q \in PeerRanks : store[p][q] # "none" ELSE TRUE

\* arrive(): an error under a peer's key makes the leader raise
ArriveError(p, rank) ==
    rank = LeaderRank /\ \E q \in PeerRanks : store[p][q] = "err"

\* arrive(): a peer publishes its arrival
ArriveStore(p, rank) ==
    IF rank = LeaderRank THEN store ELSE [store EXCEPT ![p][rank] = "ok"]

\* depart(): a peer waits for the key of the leader, the leader does not wait
DepartReady(p, rank) ==
    IF rank = LeaderRank THEN TRUE ELSE store[p][LeaderRank] # "none"

\* depart(): an error under the leader's key makes a peer raise
DepartError(p, rank) ==
    rank # LeaderRank /\ store[p][LeaderRank] = "err"

\* depart(): the leader publishes its departure
DepartStore(p, rank) ==
    IF rank = LeaderRank THEN [store EXCEPT ![p][LeaderRank] = "ok"] ELSE store

\* report_error(): the error goes under the rank's own key
ReportErrorStore(st, p, rank) == [st EXCEPT ![p][rank] = "err"]

\* ------------------------------------------------------------------- Init
\* a call of `op` on the handle of take k by rank r: its result, whether the
\* background thread had terminated, the state dict it left
Call(op, k, r, res, term, state) ==
    [op |-> op, k |-> k, r |-> r, res |-> res, term |-> term, state |-> state]

\* no helper applied, no restore into another world, no call under way
NoFn == [op |-> "none"]
NoJob == [op |-> "none"]
NoRun == [op |-> "none"]

InitCommon ==
    /\ ntakes = 0
    /\ tmode = [k \in Takes |-> "none"]
    /\ tpath = [k \in Takes |-> "none"]
    /\ snap = [k \in Takes |-> app]
    /\ meta = [k \in Takes |-> NoMeta]
    /\ reqs = [k \in Takes |-> [r \in Ranks |-> {}]]
    /\ ioState = [k \in Takes |-> [r \in Ranks |-> "none"]]
    /\ mpc = [r \in Ranks |-> "idle"]
    /\ sres = [k \in Takes |-> [r \in Ranks |-> "none"]]
    /\ tpc = [k \in Takes |-> [r \in Ranks |-> "none"]]
    /\ metaBy = [k \in Takes |-> <<>>]
    /\ excInfo = [k \in Takes |-> [r \in Ranks |-> FALSE]]
    /\ doneFlag = [k \in Takes |-> [r \in Ranks |-> FALSE]]
    /\ store = [p \in Paths |-> [r \in Ranks |-> "none"]]
    /\ storage = [p \in Paths |-> [objs |-> <<>>, meta |-> NoMeta]]
    /\ lastCall = Call("none", 0, 0, "none", FALSE, <<>>)

\* The commit protocol: one app state (a replicated tensor, a per-rank int, a
\* row-wise sharded tensor), any interleaving, any failure.
Init ==
    /\ limit = MaxTakes
    /\ hints = [r \in Ranks |-> {"w"}]
    /\ layout = [i \in 0 .. (TensorLen - 1) |-> i % WorldSize]
    /\ app = [r \in Ranks |-> Fresh(r, 0, layout, Shared)]
    /\ InitCommon
    /\ fn = NoFn
    /\ job = NoJob
    /\ run = NoRun

\* variants of the rank test: every rank, or no rank, writes the metadata
EveryRankWrites(rank) == TRUE

\* ------------------------------------------------------ Snapshot.take (sync)
\* `if pg_wrapper.get_rank() == 0:` / `if rank == 0:` guarding the metadata write
IsMetadataWriter(rank) == rank = 0

\* The path of the next call: one already used, or the first unused one
\* (locations are interchangeable names).
CallPaths ==
    LET used == {tpath[k] : k \in 1 .. ntakes}
    IN  used \cup {PathSeq[i] : i \in {j \in 1 .. Len(PathSeq) :
                                        j = Cardinality(used) + 1}}

\* _coalesce_path_and_replicated and _take_impl on every rank (the collectives
\* of _take_impl make the ranks run it together): take k holds the state of
\* every rank, the metadata and every rank's staged write requests.
TakeImpl(k, p) ==
    /\ ntakes' = k
    /\ tpath' = [tpath EXCEPT ![k] = p]
    /\ snap' = [snap EXCEPT ![k] = app]
    /\ meta' = [meta EXCEPT ![k] = TakeMetadata(app, CoalesceReplicated(hints))]
    /\ reqs' = [reqs EXCEPT ![k] =
                   [r \in Ranks |-> TakeWriteReqs(r, app, CoalesceReplicated(hints))]]
    /\ ioState' = [ioState EXCEPT ![k] = [r \in Ranks |-> "pending"]]

\* Snapshot.take up to the return of _take_impl, on every rank
Take(p) ==
    /\ ntakes < limit
    /\ \A r \in Ranks : mpc[r] = "idle"
    /\ TakeImpl(ntakes + 1, p)
    /\ tmode' = [tmode EXCEPT ![ntakes + 1] = "sync"]
    /\ mpc' = [r \in Ranks |-> "sync_complete"]
    /\ UNCHANGED <<aux, input, sres, thread, metaBy, storage, seen>>

\* pending_io_work.sync_complete(event_loop) in take
SyncComplete(r) ==
    /\ mpc[r] = "sync_complete"
    /\ storage' = [storage EXCEPT ![tpath[ntakes]].objs = WriteAll(@, reqs[ntakes][r])]
    /\ reqs' = [reqs EXCEPT ![ntakes][r] = {}]
    /\ ioState' = [ioState EXCEPT ![ntakes][r] = "ok"]
    /\ mpc' = [mpc EXCEPT ![r] = "barrier"]
    /\ UNCHANGED <<aux, input, calls, sres, thread, metaBy, seen>>

\* sync_complete raises (the first write fails): take raises on this rank
SyncCompleteFail(r) ==
    /\ mpc[r] = "sync_complete"
    /\ reqs[ntakes][r] # {}
    /\ ioState' = [ioState EXCEPT ![ntakes][r] = "failed"]
    /\ mpc' = [mpc EXCEPT ![r] = "idle"]
    /\ sres' = [sres EXCEPT ![ntakes][r] = "raised"]
    /\ UNCHANGED <<aux, input, calls, thread, reqs, metaBy, storage, seen>>

\* position of a rank after pg_wrapper.barrier() in take
AfterBarrier(rank) == IF IsMetadataWriter(rank) THEN "write_meta" ELSE "close"

\* pg_wrapper.barrier() in take: returns once every rank has entered it
SyncBarrier ==
    /\ \A r \in Ranks : mpc[r] = "barrier"
    /\ mpc' = [r \in Ranks |-> AfterBarrier(r)]
    /\ UNCHANGED <<aux, input, calls, sres, thread, disk, seen>>

\* variant: the metadata written is rebuilt from the state at the time of the
\* write instead of being the one _take_impl returned
MetadataFromCurrentState(k) == TakeMetadata(app, CoalesceReplicated(hints))

\* the SnapshotMetadata a rank hands to _write_snapshot_metadata
MetadataToWrite(k) == meta[k]

\* _write_snapshot_metadata: storage.sync_write of .snapshot_metadata
WriteSnapshotMetadata(k, r) ==
    /\ storage' = [storage EXCEPT ![tpath[k]].meta = MetadataToWrite(k)]
    /\ metaBy' = [metaBy EXCEPT ![k] = Append(@, r)]

\* cls._write_snapshot_metadata(...) in take
SyncWriteMeta(r) ==
    /\ mpc[r] = "write_meta"
    /\ WriteSnapshotMetadata(ntakes, r)
    /\ mpc' = [mpc EXCEPT ![r] = "close"]
    /\ UNCHANGED <<aux, input, calls, sres, thread, reqs, ioState, seen>>

\* the metadata write raises: take raises on this rank
SyncWriteMetaFail(r) ==
    /\ mpc[r] = "write_meta"
    /\ mpc' = [mpc EXCEPT ![r] = "idle"]
    /\ sres' = [sres EXCEPT ![ntakes][r] = "raised"]
    /\ UNCHANGED <<aux, input, calls, thread, disk, seen>>

\* storage.sync_close(); event_loop.close(); return snapshot
SyncClose(r) ==
    /\ mpc[r] = "close"
    /\ mpc' = [mpc EXCEPT ![r] = "idle"]
    /\ sres' = [sres EXCEPT ![ntakes][r] = "returned"]
    /\ UNCHANGED <<aux, input, calls, thread, disk, seen>>

\* --------------------------------------------------------- Snapshot.async_take
\* async_take on every rank: _take_impl, then PendingSnapshot.__init__ starts
\* the background thread and the call returns
AsyncTake(p) ==
    /\ ntakes < limit
    /\ \A r \in Ranks : mpc[r] = "idle"
    /\ TakeImpl(ntakes + 1, p)
    /\ tmode' = [tmode EXCEPT ![ntakes + 1] = "async"]
    /\ tpc' = [tpc EXCEPT ![ntakes + 1] = [r \in Ranks |-> "io"]]
    /\ UNCHANGED <<aux, input, sync, excInfo, doneFlag, store, metaBy, storage, seen>>

\* variant: the leader leaves arrive() straight for depart()
AfterArriveSkipsWrite(rank) == "depart"

\* ------------------------------------------- PendingSnapshot._complete_snapshot
\* position after barrier.arrive() returned
AfterArrive(rank) == IF IsMetadataWriter(rank) THEN "write_meta" ELSE "depart"

\* except Exception as e: barrier.report_error(str(e)); self.exc_info = ...
\* (st is the store as the failing step left it)
Except(k, r, st) ==
    /\ store' = ReportErrorStore(st, tpath[k], r)
    /\ excInfo' = [excInfo EXCEPT ![k][r] = TRUE]
    /\ tpc' = [tpc EXCEPT ![k][r] = "finally"]

\* pending_io_work.sync_complete(event_loop)
ThreadComplete(k, r) ==
    /\ tpc[k][r] = "io"
    /\ storage' = [storage EXCEPT ![tpath[k]].objs = WriteAll(@, reqs[k][r])]
    /\ reqs' = [reqs EXCEPT ![k][r] = {}]
    /\ ioState' = [ioState EXCEPT ![k][r] = "ok"]
    /\ tpc' = [tpc EXCEPT ![k][r] = "arrive"]
    /\ UNCHANGED <<aux, input, calls, sync, excInfo, doneFlag, store, metaBy, seen>>

\* sync_complete raises (the first write fails)
ThreadCompleteFail(k, r) ==
    /\ tpc[k][r] = "io"
    /\ reqs[k][r] # {}
    /\ ioState' = [ioState EXCEPT ![k][r] = "failed"]
    /\ Except(k, r, store)
    /\ UNCHANGED <<aux, input, calls, sync, doneFlag, reqs, metaBy, storage, seen>>

\* barrier.arrive(timeout) returns
ThreadArrive(k, r) ==
    /\ tpc[k][r] = "arrive"
    /\ ArriveReady(tpath[k], r)
    /\ ~ArriveError(tpath[k], r)
    /\ store' = ArriveStore(tpath[k], r)
    /\ tpc' = [tpc EXCEPT ![k][r] = AfterArrive(r)]
    /\ UNCHANGED <<aux, input, calls, sync, excInfo, doneFlag, disk, seen>>

\* barrier.arrive(timeout) raises: a peer has reported an error
ThreadArriveError(k, r) ==
    /\ tpc[k][r] = "arrive"
    /\ ArriveReady(tpath[k], r)
    /\ ArriveError(tpath[k], r)
    /\ Except(k, r, ArriveStore(tpath[k], r))
    /\ UNCHANGED <<aux, input, calls, sync, doneFlag, disk, seen>>

\* Snapshot._write_snapshot_metadata(...) in the background thread
ThreadWriteMeta(k, r) ==
    /\ tpc[k][r] = "write_meta"
    /\ WriteSnapshotMetadata(k, r)
    /\ tpc' = [tpc EXCEPT ![k][r] = "depart"]
    /\ UNCHANGED <<aux, input, calls, sync, excInfo, doneFlag, store, reqs, ioState, seen>>

\* the metadata write raises
ThreadWriteMetaFail(k, r) ==
    /\ tpc[k][r] = "write_meta"
    /\ Except(k, r, store)
    /\ UNCHANGED <<aux, input, calls, sync, doneFlag, disk, seen>>

\* barrier.depart(timeout) returns
ThreadDepart(k, r) ==
    /\ tpc[k][r] = "depart"
    /\ DepartReady(tpath[k], r)
    /\ ~DepartError(tpath[k], r)
    /\ store' = DepartStore(tpath[k], r)
    /\ tpc' = [tpc EXCEPT ![k][r] = "finally"]
    /\ UNCHANGED <<aux, input, calls, sync, excInfo, doneFlag, disk, seen>>

\* barrier.depart(timeout) raises: the leader has reported an error
ThreadDepartError(k, r) ==
    /\ tpc[k][r] = "depart"
    /\ DepartReady(tpath[k], r)
    /\ DepartError(tpath[k], r)
    /\ Except(k, r, DepartStore(tpath[k], r))
    /\ UNCHANGED <<aux, input, calls, sync, doneFlag, disk, seen>>

\* store.wait(...) inside arrive() or depart() runs into `timeout`
ThreadTimeout(k, r) ==
    /\ \/ tpc[k][r] = "arrive" /\ ~ArriveReady(tpath[k], r)
       \/ tpc[k][r] = "depart" /\ ~DepartReady(tpath[k], r)
    /\ Except(k, r, store)
    /\ UNCHANGED <<aux, input, calls, sync, doneFlag, disk, seen>>

\* finally: storage.sync_close(); event_loop.close(); then self._done = True
ThreadFinally(k, r) ==
    /\ tpc[k][r] = "finally"
    /\ doneFlag' = [doneFlag EXCEPT ![k][r] = TRUE]
    /\ tpc' = [tpc EXCEPT ![k][r] = "term"]
    /\ UNCHANGED <<aux, input, calls, sync, excInfo, store, disk, seen>>

\* storage.sync_close() raises inside the finally block: the exception leaves
\* _complete_snapshot and the thread ends before `self._done = True`
ThreadCloseFail(k, r) ==
    /\ tpc[k][r] = "finally"
    /\ tpc' = [tpc EXCEPT ![k][r] = "term"]
    /\ UNCHANGED <<aux, input, calls, sync, excInfo, doneFlag, store, disk, seen>>

\* variant: wait() does not join the thread
NotJoined(k, r) == TRUE

\* ---------------------------------------------------- PendingSnapshot.wait/done
\* self.thread.join() returns
Joined(k, r) == tpc[k][r] = "term"

\* wait(): join the thread, raise if exc_info is set, else return Snapshot(path)
Wait(k, r) ==
    /\ tmode[k] = "async"
    /\ mpc[r] = "idle"
    /\ Joined(k, r)
    /\ lastCall' = Call("wait", k, r, IF excInfo[k][r] THEN "raised" ELSE "snapshot",
                        tpc[k][r] = "term", <<tpath[k]>>)
    /\ UNCHANGED <<aux, input, calls, sync, thread, disk>>

\* done(): return self._done
Done(k, r) ==
    /\ tmode[k] = "async"
    /\ mpc[r] = "idle"
    /\ lastCall' = Call("done", k, r, IF doneFlag[k][r] THEN "True" ELSE "False",
                        tpc[k][r] = "term", <<>>)
    /\ UNCHANGED <<aux, input, calls, sync, thread, disk>>

\* ------------------------------------------------------------ Snapshot.restore
\* rank r holds a Snapshot of take k: take returned it, or wait() did
HasSnapshot(k, r) ==
    \/ tmode[k] = "sync" /\ sres[k][r] = "returned"
    \/ /\ tmode[k] = "async"
       /\ lastCall.op \in {"wait", "restore"}
       /\ lastCall.k = k /\ lastCall.r = r /\ lastCall.res # "raised"

\* Snapshot.metadata: the cached _metadata (set by take), else the file
SnapshotMetadata(k) ==
    IF tmode[k] = "sync" THEN meta[k] ELSE storage[tpath[k]].meta

RestoreRaises(k, r) ==
    \/ SnapshotMetadata(k) = NoMeta
    \/ LoadRaises(app[r], GetAvailableEntries(SnapshotMetadata(k).manifest, r),
                  storage[tpath[k]].objs)

\* restore on rank r up to the barrier that follows _load_stateful
RestoreLoad(k, r) ==
    /\ mpc[r] = "idle"
    /\ HasSnapshot(k, r)
    /\ ~RestoreRaises(k, r)
    /\ app' = [app EXCEPT ![r] =
                  LoadStateful(@, GetAvailableEntries(SnapshotMetadata(k).manifest, r),
                               storage[tpath[k]].objs)]
    /\ lastCall' = Call("restore", k, r, "ok", TRUE, app'[r])
    /\ mpc' = [mpc EXCEPT ![r] = "restore_barrier"]
    /\ UNCHANGED <<aux, layout, hints, limit, calls, sres, thread, disk>>

\* restore raises on rank r: the metadata cannot be read, a path is not
\* available or a read fails; load_state_dict is not called
RestoreRaise(k, r) ==
    /\ mpc[r] = "idle"
    /\ HasSnapshot(k, r)
    /\ RestoreRaises(k, r)
    /\ lastCall' = Call("restore", k, r, "raised", TRUE, app[r])
    /\ UNCHANGED <<aux, input, calls, sync, thread, disk>>

\* pg_wrapper.barrier() of restore, then close and return
RestoreBarrier ==
    /\ \A r \in Ranks : mpc[r] = "restore_barrier"
    /\ mpc' = [r \in Ranks |-> "idle"]
    /\ UNCHANGED <<aux, input, calls, sres, thread, disk, seen>>

\* ------------------------------------------------------------- the application
\* rank r overwrites the values of its state in place (generation g)
Modify(r, g) ==
    /\ ntakes > 0
    /\ mpc[r] = "idle"
    /\ app[r] # Fresh(r, g, layout, Shared)
    /\ app' = [app EXCEPT ![r] = Fresh(r, g, layout, Shared)]
    /\ UNCHANGED <<aux, layout, hints, limit, calls, sync, thread, disk, seen>>

\* every rank builds a new app state of the same structure, sharded by l
NewState(g, l) ==
    /\ ntakes > 0
    /\ \A r \in Ranks : mpc[r] = "idle"
    /\ l # layout
    /\ layout' = l
    /\ app' = [r \in Ranks |-> Fresh(r, g, l, Shared)]
    /\ UNCHANGED <<aux, hints, limit, calls, sync, thread, disk, seen>>

\* ------------------------------------------------------------- specifications
SyncStep(r) ==
    \/ SyncComplete(r)
    \/ SyncWriteMeta(r)
    \/ SyncClose(r)

ThreadStep(k, r) ==
    \/ ThreadComplete(k, r)
    \/ ThreadArrive(k, r)
    \/ ThreadWriteMeta(k, r)
    \/ ThreadDepart(k, r)
    \/ ThreadFinally(k, r)

ThreadErrorStep(k, r) ==
    \/ ThreadArriveError(k, r)
    \/ ThreadDepartError(k, r)

ThreadFault ==
    \/ \E k \in Takes, r \in Ranks : ThreadCompleteFail(k, r)
    \/ \E k \in Takes, r \in Ranks : ThreadWriteMetaFail(k, r)
    \/ \E k \in Takes, r \in Ranks : ThreadTimeout(k, r)
    \/ \E k \in Takes, r \in Ranks : ThreadCloseFail(k, r)

Fault ==
    \/ \E r \in Ranks : SyncCompleteFail(r)
    \/ \E r \in Ranks : SyncWriteMetaFail(r)
    \/ ThreadFault

Commit ==
    \/ \E p \in CallPaths : Take(p)
    \/ \E p \in CallPaths : AsyncTake(p)
    \/ \E r \in Ranks : SyncStep(r)
    \/ SyncBarrier
    \/ \E k \in Takes, r \in Ranks : ThreadStep(k, r)
    \/ \E k \in Takes, r \in Ranks : Wait(k, r)

Next ==
    \/ Commit
    \/ Fault
    \/ \E k \in Takes, r \in Ranks : ThreadErrorStep(k, r)
    \/ \E k \in Takes, r \in Ranks : Done(k, r)

Spec == Init /\ [][Next]_vars

\* Threads are scheduled fairly; nothing obliges a failure to happen.
Fairness ==
    \A k \in Takes, r \in Ranks :
        WF_vars(ThreadStep(k, r) \/ ThreadErrorStep(k, r))

\* The asynchronous commit left to itself: async_take calls and their
\* background threads, scheduled fairly; no rank calls wait() or done().
NextAsync ==
    \/ \E p \in CallPaths : AsyncTake(p)
    \/ \E k \in Takes, r \in Ranks : ThreadStep(k, r)
    \/ \E k \in Takes, r \in Ranks : ThreadErrorStep(k, r)
    \/ ThreadFault

SpecFair == Init /\ [][NextAsync]_vars /\ Fairness

\* Take, modify, restore: any replicated hints, any sharding, no failure.
HintChoices == {{}, {"w"}, {"**"}}

InitData ==
    /\ limit = DataTakes
    /\ hints \in [Ranks -> HintChoices]
    /\ layout \in Layouts
    /\ app = [r \in Ranks |-> Fresh(r, 0, layout, Shared)]
    /\ InitCommon
    /\ fn = NoFn
    /\ job = NoJob
    /\ run = NoRun

NextData ==
    \/ Commit
    \/ \E r \in Ranks, g \in Gens : Modify(r, g)
    \/ \E g \in Gens, l \in Layouts : NewState(g, l)
    \/ \E k \in Takes, r \in Ranks : RestoreLoad(k, r)
    \/ RestoreBarrier

SpecData == InitData /\ [][NextData]_vars

\* ----------------------------------------------------------------- claims
Started == 1 .. ntakes

\* take k has run to its end on every rank
Completed(k) ==
    \/ tmode[k] = "sync" /\ \A r \in Ranks : sres[k][r] = "returned"
    \/ tmode[k] = "async" /\ \A r \in Ranks : tpc[k][r] = "term"

\* some write, barrier wait or close has failed on some rank
AnyFault ==
    \E k \in Takes, r \in Ranks :
        \/ ioState[k][r] = "failed"
        \/ sres[k][r] = "raised"
        \/ excInfo[k][r]
        \/ tpc[k][r] = "term" /\ ~doneFlag[k][r]

\* rank q is blocked in a wait of the store-based barrier of take k
Waiting(k, q) ==
    \/ q = LeaderRank /\ tpc[k][q] = "arrive"
    \/ q # LeaderRank /\ tpc[k][q] = "depart"

\* C1: whenever the metadata file of a take has been written, every rank has
\* completed all of its data writes of that take successfully.
C1_MetadataAfterAllWrites ==
    \A k \in Takes :
        metaBy[k] # <<>> => \A r \in Ranks : ioState[k][r] = "ok"

\* C2: the metadata file of a take is written at most once and only by rank 0;
\* a take that ran to its end in a run without failure has written it once.
C2_MetadataOnceByRankZero ==
    \A k \in Takes :
        /\ Len(metaBy[k]) <= 1
        /\ \A i \in 1 .. Len(metaBy[k]) : metaBy[k][i] = 0
        /\ (Completed(k) /\ ~AnyFault) => metaBy[k] = <<0>>

C2_Witness ==
    \E k1, k2 \in Takes :
        /\ tmode[k1] = "sync" /\ tmode[k2] = "async"
        /\ Completed(k1) /\ Completed(k2) /\ ~AnyFault
        /\ metaBy[k1] = <<0>> /\ metaBy[k2] = <<0>>

\* C3: once a rank's background task of a take has failed, every other rank
\* that is waiting in arrive or depart of that take leaves its wait only with a
\* failure.
C3_WaitersLeaveWithFailure ==
    [][\A k \in Takes, q \in Ranks :
          ((\E r \in Ranks \ {q} : excInfo[k][r]) /\ Waiting(k, q) /\ ~Waiting(k, q)')
              => excInfo'[k][q]]_vars

\* The liveness half of C3, which holds under fair scheduling of the threads:
\* once a rank's background task has failed, every background task of that take
\* terminates, so no rank stays blocked in arrive or depart.
C3_FailureUnblocksAll ==
    \A k \in Takes :
        (\E r \in Ranks : excInfo[k][r]) ~> (\A q \in Ranks : tpc[k][q] = "term")

\* C4: wait() never returns a Snapshot on one rank while the commit of the same
\* take has failed on another rank.
C4_WaitRaisesEverywhere ==
    (lastCall.op = "wait" /\ lastCall.res = "snapshot")
        => \A q \in Ranks : ~excInfo[lastCall.k][q]

\* C5: wait() returns or raises only after the rank's background task has
\* terminated; it raises exactly when the task captured a failure, and the
\* Snapshot it returns otherwise refers to the path of the take.
C5_WaitJoinsThenReports ==
    lastCall.op = "wait" =>
        /\ lastCall.term
        /\ tpc[lastCall.k][lastCall.r] = "term"
        /\ (lastCall.res = "raised") <=> excInfo[lastCall.k][lastCall.r]
        /\ lastCall.res = "snapshot" => lastCall.state = <<tpath[lastCall.k]>>

C5_Witness ==
    /\ lastCall.op = "wait" /\ lastCall.res = "raised"
    /\ \E r \in Ranks : r # lastCall.r /\ tpc[lastCall.k][r] # "term"

\* C6: without any failure, every background task of an async_take reaches
\* its end with _done set and rank 0 writes the metadata, whether or not any
\* rank calls wait() or done().
C6_CommitsWithoutWait ==
    \A k \in Takes :
        (tmode[k] = "async") ~>
            (\/ AnyFault
             \/ /\ \A r \in Ranks : tpc[k][r] = "term" /\ doneFlag[k][r]
                /\ metaBy[k] # <<>>)

C6_Witness ==
    \E k \in Takes :
        /\ tmode[k] = "async" /\ Completed(k) /\ ~AnyFault
        /\ lastCall.op = "none"
        /\ storage[tpath[k]].meta = meta[k]

\* C7: done() returns True exactly when the background task has terminated.
C7_DoneIffTerminated ==
    lastCall.op = "done" => ((lastCall.res = "True") <=> lastCall.term)

\* ------------------------------------------------------- claims on the data
\* no other take went to the location of take k
SoleOnPath(k) == \A j \in Started : j # k => tpath[j] # tpath[k]

\* the paths take k treated as replicated
ReplicatedPathsOf(k) ==
    Range(CalculateReplicatedEntries(snap[k], CoalesceReplicated(hints)))

\* the replicated values were the same on every rank when take k was made
Consistent(k) ==
    \A p \in ReplicatedPathsOf(k), r, q \in Ranks : snap[k][r][p] = snap[k][q][p]

\* element i of the sharded tensor p when take k was made
TakenElem(k, p, i) ==
    LET s == CHOOSE s \in UNION {snap[k][r][p].shards : r \in Ranks} :
                 s.offsets <= i /\ i < s.offsets + s.sizes
    IN  s.data[i - s.offsets + 1]

ShardShape(obj) == {[offsets |-> s.offsets, sizes |-> s.sizes] : s \in obj.shards}

\* the data objects every rank's write requests of take k amount to
ExpectedObjects(k) ==
    UNION {TakeWriteReqs(r, snap[k], CoalesceReplicated(hints)) : r \in Ranks}

ExpectedMetadata(k) == TakeMetadata(snap[k], CoalesceReplicated(hints))

\* the data objects under location p
StoredObjects(p) ==
    {[path |-> loc, buf |-> storage[p].objs[loc]] : loc \in DOMAIN storage[p].objs}

\* C8: a rank that holds the Snapshot of a take can restore it, and restore
\* leaves in its state the values the state had when the take was made: its own
\* per-rank values, the replicated values, and the elements of the sharded
\* tensor under whatever sharding the destination has.
C8_RestoreReproducesTake ==
    /\ \A k \in Started, r \in Ranks :
           (HasSnapshot(k, r) /\ mpc[r] = "idle" /\ SoleOnPath(k) /\ Consistent(k))
               => ~RestoreRaises(k, r)
    /\ (lastCall.op = "restore" /\ SoleOnPath(lastCall.k) /\ Consistent(lastCall.k)) =>
           LET k == lastCall.k
               r == lastCall.r
               got == lastCall.state
           IN  /\ lastCall.res = "ok"
               /\ got["n"] = snap[k][r]["n"]
               /\ got["w"] = snap[k][r]["w"]
               /\ got["e"].type = "sharded"
               /\ \A s \in got["e"].shards :
                      \A m \in 1 .. s.sizes :
                          s.data[m] = TakenElem(k, "e", s.offsets + m - 1)
               /\ mpc[r] = "restore_barrier" =>
                      /\ app[r] = got
                      /\ {s.offsets : s \in got["e"].shards} = RunStarts(layout, r)

C8_Witness ==
    /\ lastCall.op = "restore"
    /\ "w" \in ReplicatedPathsOf(lastCall.k)
    /\ "n" \notin ReplicatedPathsOf(lastCall.k)
    /\ lastCall.state["e"].shards # {}
    /\ ShardShape(lastCall.state["e"]) # ShardShape(snap[lastCall.k][lastCall.r]["e"])
    /\ mpc[lastCall.r] = "restore_barrier"

\* C9: a take that has run to its end, by take or by async_take and its
\* background threads, has persisted the data objects of every rank's write
\* requests and the metadata _take_impl built, and nothing else.
C9_SamePersistedState ==
    \A k \in Started :
        (Completed(k) /\ SoleOnPath(k)) =>
            /\ StoredObjects(tpath[k]) = ExpectedObjects(k)
            /\ storage[tpath[k]].meta = ExpectedMetadata(k)

C9_Witness ==
    \E k \in Started :
        /\ tmode[k] = "async" /\ Completed(k)
        /\ "w" \in ReplicatedPathsOf(k)
        /\ StoredObjects(tpath[k]) = ExpectedObjects(k)
        /\ storage[tpath[k]].meta = ExpectedMetadata(k)

MaxChunks == 2
MaxChunkElems == 2
MaxObjBytes == 2
\* the largest world size a helper or a restore is given
MaxWorld == WorldSize + 1

\* os.path.join(key, name)
PathJoin(key, name) == key \o "/" \o name

\* the stateful under key "m" as _infer_replicated sees it: a DDP module or
\* not, its parameter and buffer names, its parameters_to_ignore
ModuleChoices ==
    {[ddp |-> d, names |-> {"a", "b"}, ignored |-> i] :
        d \in BOOLEAN, i \in {{}, {"a"}}}

\* _infer_replicated
InferReplicated(replicated, app_state) ==
    IF "**" \in replicated THEN replicated
    ELSE replicated \cup
         UNION {IF ~app_state[key].ddp THEN {}
                ELSE IF app_state[key].ignored = {}
                     THEN {PathJoin(key, "**")}
                     ELSE {PathJoin(key, name) :
                              name \in app_state[key].names \ app_state[key].ignored}
                : key \in DOMAIN app_state}

\* pg.all_gather_object: every rank receives the list of every rank's object
AllGatherObject(objs) == [r \in Ranks |-> objs]

\* pg.broadcast_object_list(src=0): every rank's list becomes rank 0's
BroadcastObjectList(lists) == [r \in Ranks |-> lists[0]]

\* the `replicated` half of _coalesce_path_and_replicated, on every rank
CoalescedReplicated(replicateds, app_states) ==
    LET global_replicated ==
            AllGatherObject([r \in Ranks |->
                InferReplicated(replicateds[r], app_states[r])])
    IN  [rank \in Ranks |-> CoalesceReplicated(global_replicated[rank])]

\* _calculate_replicated_entries as every rank returns it
ReplicatedEntries(flats, replicated) ==
    BroadcastObjectList([rank \in Ranks |->
        IF rank = 0 THEN CalculateReplicatedEntries(flats, replicated) ELSE <<>>])

\* ---------------------------------------------------- chunking under a limit
\* elements of the largest buffer, and elements of the largest chunk-size limit
MaxBufElems == 3
MaxLimitElems == 2

\* chunks of `elems` elements from offset o to the end of a buffer of n elements
RECURSIVE ChunkUnder(_, _, _)
ChunkUnder(o, n, elems) ==
    IF o >= n THEN <<>>
    ELSE LET s == IF o + elems <= n THEN elems ELSE n - o
         IN  <<[offsets |-> o, sizes |-> s]>> \o ChunkUnder(o + s, n, elems)

\* ChunkPlanner: a buffer at or below the limit is one chunk, a larger one is
\* cut along dim 0 into chunks of as many whole elements as the limit holds
ChunkTensorUnder(obj, chunk_sz_bytes) ==
    IF Len(obj.data) * ElementSize <= chunk_sz_bytes
    THEN <<[offsets |-> 0, sizes |-> Len(obj.data)]>>
    ELSE ChunkUnder(0, Len(obj.data), chunk_sz_bytes \div ElementSize)

\* a loop that chunks every tensor, the ShardedTensors too
ChunkEveryTensor(flattened, chunk_sz_bytes) ==
    [p \in {q \in DOMAIN flattened : flattened[q].type \in {"tensor", "sharded"}} |->
        ChunkTensorUnder(flattened[p], chunk_sz_bytes)]

\* the loop of _take_impl over flattened.items(): a ShardedTensor and a value
\* that is not a tensor are skipped, any other tensor gets its chunk plan
ChunkNonSharded(flattened, chunk_sz_bytes) ==
    [p \in {q \in DOMAIN flattened : flattened[q].type = "tensor"} |->
        ChunkTensorUnder(flattened[p], chunk_sz_bytes)]

\* ---------------------------------------------------------------- arguments
\* flattened state dicts: any subset of the keys, each a tensor or a ShardedTensor
FlatChoices ==
    UNION {[D -> {[type |-> "tensor"], [type |-> "sharded"]}] :
              D \in SUBSET Range(FlatKeys)}

PatternChoices == SUBSET {"n", "w", "**"}

SuppliedChoices == SUBSET {"n", "**", "m/**"}

\* lists of distinct logical paths
PathLists ==
    {s \in UNION {[1 .. n -> Range(FlatKeys)] : n \in 0 .. Len(FlatKeys)} :
        \A i, j \in DOMAIN s : s[i] = s[j] => i = j}

RECURSIVE SumSeq(_)
SumSeq(ns) == IF ns = <<>> THEN 0 ELSE Head(ns) + SumSeq(Tail(ns))

\* the chunks of a tensor cut along dim 0 into pieces of the given lengths
ChunksOfSizes(ns) ==
    [i \in 1 .. Len(ns) |-> [offsets |-> SumSeq(SubSeq(ns, 1, i - 1)), sizes |-> ns[i]]]

ChunkPlans ==
    {ChunksOfSizes(ns) : ns \in UNION {[1 .. n -> 1 .. MaxChunkElems] : n \in 1 .. MaxChunks}}

\* chunking instructions: a chunk plan for any subset of the paths
InstructionChoices == UNION {[D -> ChunkPlans] : D \in SUBSET Range(FlatKeys)}

\* the values of a flattened state: an int, a ShardedTensor, a tensor of up to
\* MaxBufElems elements
BufferChoices ==
    {[type |-> "int", data |-> <<>>], [type |-> "sharded", data |-> <<0>>]} \cup
    {[type |-> "tensor", data |-> [i \in 1 .. n |-> i]] : n \in 0 .. MaxBufElems}

StateChoices == UNION {[D -> BufferChoices] : D \in SUBSET Range(FlatKeys)}

\* the chunk plans of a tensor of two elements, which a rank computes from its
\* own tensor
LocalPlans == {ChunksOfSizes(<<1, 1>>), ChunksOfSizes(<<2>>)}

\* chunk-size limits in bytes, multiples of the element size or not
LimitChoices == ElementSize .. (MaxLimitElems * ElementSize + 1)

\* a chunk plan for a tensor, or <<>> for a value that is not a tensor
PlanOrNone == ChunkPlans \cup {<<>>}

\* The flattened state of rank r for a take: r holds the paths whose holders
\* include it; "e" is a ShardedTensor with one local shard per rank, another
\* path is a tensor as long as its plan, or an int when it has no plan; the
\* replicated paths hold the same value on every rank.
TakeState(r, plans, holders, replicated_paths) ==
    LET own(p) == IF p \in Range(replicated_paths) THEN "all" ELSE ToString(r)
    IN  [p \in {q \in Range(FlatKeys) : r \in holders[q]} |->
            IF p = "e"
            THEN ShardedVal({[offsets |-> r, sizes |-> 1,
                              data |-> <<<<"all", 0, p, r>>>>]})
            ELSE IF plans[p] = <<>> THEN IntVal(<<own(p), 0, p, 0>>)
                 ELSE TensorVal([i \in 1 .. SumSeq([j \in DOMAIN plans[p] |->
                                                       plans[p][j].sizes]) |->
                                    <<own(p), 0, p, i - 1>>])]

\* the chunking instructions of rank r: the plans of the tensors it holds
TakePlans(r, plans, holders) ==
    [p \in {q \in DOMAIN plans : r \in holders[q] /\ plans[q] # <<>>} |-> plans[p]]

\* a call of `op` with `args` that has not returned
Called(op, args) == [op |-> op, done |-> FALSE, out |-> <<>>, args |-> args]

FnArgs ==
    \/ \E f \in [Ranks -> FlatChoices], pats \in PatternChoices :
          fn = Called("_calculate_replicated_entries",
                      [flats |-> f, replicated |-> pats])
    \/ \E rs \in [Ranks -> SuppliedChoices], ms \in [Ranks -> ModuleChoices] :
          fn = Called("_coalesce_path_and_replicated",
                      [replicateds |-> rs,
                       app_states |-> [r \in Ranks |-> [m |-> ms[r]]]])
    \/ \E ps \in PathLists, ci \in InstructionChoices, n \in 1 .. MaxWorld :
          \E b \in [Range(FlatKeys) \ DOMAIN ci -> 1 .. MaxObjBytes] :
              fn = Called("_partition_replicated_paths",
                          [replicated_paths |-> ps, chunking_instructions |-> ci,
                           world_size |-> n, nbytes |-> b])
    \/ \E f \in StateChoices, l \in LimitChoices :
          fn = Called("chunk_tensor", [flattened |-> f, chunk_sz_bytes |-> l])
    \/ \E ps \in PathLists, D \in SUBSET Range(FlatKeys) :
          \E cis \in [Ranks -> [D -> LocalPlans]] :
              fn = Called("_partition_logical_paths",
                          [replicated_paths |-> ps, chunking_instructions |-> cis,
                           flattened |-> [r \in Ranks |->
                               [p \in Range(FlatKeys) |->
                                   [type |-> IF p \in D THEN "tensor" ELSE "int"]]]])
    \/ \E plans \in [{"n", "w"} -> PlanOrNone],
          holders \in [Range(FlatKeys) -> (SUBSET Ranks) \ {{}}], ps \in PathLists :
          /\ \A i \in DOMAIN ps : ps[i] # "e" /\ holders[ps[i]] = Ranks
          /\ fn = Called("_gather_manifest",
                         [replicated_paths |-> ps,
                          chunking_instructions |->
                              [r \in Ranks |-> TakePlans(r, plans, holders)],
                          flattened |->
                              [r \in Ranks |-> TakeState(r, plans, holders, ps)]])

InitFn ==
    /\ limit = MaxTakes
    /\ hints = [r \in Ranks |-> {"w"}]
    /\ layout = [i \in 0 .. (TensorLen - 1) |-> i % WorldSize]
    /\ app = [r \in Ranks |-> Fresh(r, 0, layout, Shared)]
    /\ InitCommon
    /\ FnArgs
    /\ job = NoJob
    /\ run = NoRun

Returned(out) == [fn EXCEPT !.done = TRUE, !.out = out]

CallCalculateReplicatedEntries ==
    /\ fn.op = "_calculate_replicated_entries" /\ ~fn.done
    /\ fn' = Returned(ReplicatedEntries(fn.args.flats, fn.args.replicated))
    /\ UNCHANGED <<input, calls, sync, thread, disk, seen, job, run>>

CallCoalesceReplicated ==
    /\ fn.op = "_coalesce_path_and_replicated" /\ ~fn.done
    /\ fn' = Returned(CoalescedReplicated(fn.args.replicateds, fn.args.app_states))
    /\ UNCHANGED <<input, calls, sync, thread, disk, seen, job, run>>

CallPartitionReplicatedPaths ==
    /\ fn.op = "_partition_replicated_paths" /\ ~fn.done
    /\ fn' = Returned(PartitionReplicatedPaths(fn.args.replicated_paths,
                                               fn.args.chunking_instructions,
                                               fn.args.world_size))
    /\ UNCHANGED <<input, calls, sync, thread, disk, seen, job, run>>

\* the chunking loop of _take_impl
CallChunkTensor ==
    /\ fn.op = "chunk_tensor" /\ ~fn.done
    /\ fn' = Returned(ChunkNonSharded(fn.args.flattened, fn.args.chunk_sz_bytes))
    /\ UNCHANGED <<input, calls, sync, thread, disk, seen, job, run>>

\* _partition_logical_paths on every rank: what each rank computed itself
\* and the partition result each rank returns
CallPartitionLogicalPaths ==
    /\ fn.op = "_partition_logical_paths" /\ ~fn.done
    /\ fn' = Returned(
              [all |-> [r \in Ranks |->
                           AllPartitionResults(r, fn.args.replicated_paths,
                                               fn.args.chunking_instructions[r],
                                               WorldSize)],
               result |-> [r \in Ranks |->
                              PartitionLogicalPaths(r, fn.args.replicated_paths,
                                                    fn.args.chunking_instructions[0],
                                                    fn.args.chunking_instructions[r],
                                                    fn.args.flattened[r])]])
    /\ UNCHANGED <<input, calls, sync, thread, disk, seen, job, run>>

\* _take_impl on every rank from the partition to _gather_manifest: the
\* partition result, object_entries and write_reqs of each rank, whether the
\* assertion of _gather_manifest failed, and the global manifest if not
CallGatherManifest ==
    /\ fn.op = "_gather_manifest" /\ ~fn.done
    /\ LET prepared(r) == PrepareWrites(r, fn.args.replicated_paths,
                                        fn.args.chunking_instructions[0],
                                        fn.args.chunking_instructions[r],
                                        fn.args.flattened[r])
       IN  fn' = Returned(
               [result |-> [r \in Ranks |->
                               PartitionLogicalPaths(r, fn.args.replicated_paths,
                                                     fn.args.chunking_instructions[0],
                                                     fn.args.chunking_instructions[r],
                                                     fn.args.flattened[r])],
                object_entries |-> [r \in Ranks |-> prepared(r).object_entries],
                write_reqs |-> [r \in Ranks |-> prepared(r).write_reqs],
                raised |-> GatherRaises([r \in Ranks |-> prepared(r).object_entries]),
                manifest |->
                    IF GatherRaises([r \in Ranks |-> prepared(r).object_entries])
                    THEN <<>>
                    ELSE GatherManifest(
                             [r \in Ranks |-> prepared(r).object_entries])])
    /\ UNCHANGED <<input, calls, sync, thread, disk, seen, job, run>>

NextFn ==
    \/ CallCalculateReplicatedEntries
    \/ CallCoalesceReplicated
    \/ CallPartitionReplicatedPaths
    \/ CallChunkTensor
    \/ CallPartitionLogicalPaths
    \/ CallGatherManifest

SpecFn == InitFn /\ [][NextFn]_vars

FnReturned(op) == fn.op = op /\ fn.done

\* C11: _calculate_replicated_entries returns the same list on every rank, and
\* a path is in it exactly when it matches one of the patterns, is a key of the
\* flattened state of every rank, and is a ShardedTensor on no rank.
C11_ReplicatedEntries ==
    FnReturned("_calculate_replicated_entries") =>
        /\ \A r \in Ranks : fn.out[r] = fn.out[0]
        /\ \A r \in Ranks, p \in Range(FlatKeys) :
              p \in Range(fn.out[r]) <=>
                  /\ \E pat \in fn.args.replicated : Fnmatch(p, pat)
                  /\ \A q \in Ranks : p \in DOMAIN fn.args.flats[q]
                  /\ \A q \in Ranks : fn.args.flats[q][p].type # "sharded"

\* a pattern matches a path rank 0 holds as a tensor and another rank does not
\* hold, or holds as a ShardedTensor, next to a path that is replicated
C11_Witness ==
    /\ FnReturned("_calculate_replicated_entries")
    /\ fn.out[0] # <<>>
    /\ \E p \in DOMAIN fn.args.flats[0], q \in Ranks :
          /\ \E pat \in fn.args.replicated : Fnmatch(p, pat)
          /\ fn.args.flats[0][p].type = "tensor"
          /\ p \notin DOMAIN fn.args.flats[q]
    /\ \E p \in DOMAIN fn.args.flats[0], q \in Ranks :
          /\ \E pat \in fn.args.replicated : Fnmatch(p, pat)
          /\ fn.args.flats[0][p].type = "tensor"
          /\ p \in DOMAIN fn.args.flats[q]
          /\ fn.args.flats[q][p].type = "sharded"

\* the patterns rank q hands to the coalescing: supplied by the caller or
\* inferred from its DDP modules
SuppliedOrInferred(q) == InferReplicated(fn.args.replicateds[q], fn.args.app_states[q])

\* C12: the replicated patterns a take uses are exactly the patterns every rank
\* supplied or inferred; a pattern missing from one rank is used on no rank, and
\* every rank ends with the same set.
C12_CoalescedPatterns ==
    FnReturned("_coalesce_path_and_replicated") =>
        \A r \in Ranks :
            /\ fn.out[r] = fn.out[0]
            /\ \A pat \in fn.out[r] \cup UNION {SuppliedOrInferred(q) : q \in Ranks} :
                  pat \in fn.out[r] <=> \A q \in Ranks : pat \in SuppliedOrInferred(q)

\* one rank supplies "m/**" and another infers it from its DDP module, and a
\* pattern that only one rank supplied is dropped
C12_Witness ==
    /\ FnReturned("_coalesce_path_and_replicated")
    /\ "m/**" \in fn.out[0]
    /\ \E q, r \in Ranks :
          /\ "m/**" \in fn.args.replicateds[q]
          /\ "m/**" \notin fn.args.replicateds[r]
    /\ \E q \in Ranks : \E pat \in fn.args.replicateds[q] : pat \notin fn.out[q]

\* the ranks of the partition and what the partition gives a rank
PartRanks == 0 .. (fn.args.world_size - 1)
ChunkSlots(path, chunk) ==
    {<<r, j>> \in PartRanks \X (1 .. MaxChunks) :
        /\ path \in DOMAIN fn.out[r].chunks
        /\ j \in DOMAIN fn.out[r].chunks[path]
        /\ fn.out[r].chunks[path][j] = chunk}
PathSlots(path) ==
    {<<r, j>> \in PartRanks \X (1 .. Len(FlatKeys)) :
        j \in DOMAIN fn.out[r].paths /\ fn.out[r].paths[j] = path}

\* C13: for every list of replicated paths, chunking instructions and world
\* size N >= 1, _partition_replicated_paths gives each chunk of a chunked
\* replicated path and each non-chunked replicated path to exactly one rank.
C13_EachAssignedOnce ==
    FnReturned("_partition_replicated_paths") =>
        /\ DOMAIN fn.out = PartRanks
        /\ \A path \in Range(fn.args.replicated_paths) :
              IF path \in DOMAIN fn.args.chunking_instructions
              THEN /\ \A chunk \in Range(fn.args.chunking_instructions[path]) :
                         Cardinality(ChunkSlots(path, chunk)) = 1
                   /\ PathSlots(path) = {}
              ELSE /\ Cardinality(PathSlots(path)) = 1
                   /\ \A r \in PartRanks : path \notin DOMAIN fn.out[r].chunks
        /\ \A r \in PartRanks :
              /\ DOMAIN fn.out[r].chunks \subseteq Range(fn.args.replicated_paths)
              /\ Range(fn.out[r].paths) \subseteq Range(fn.args.replicated_paths)
              /\ \A path \in DOMAIN fn.out[r].chunks :
                    Range(fn.out[r].chunks[path]) \subseteq
                        Range(fn.args.chunking_instructions[path])

\* two ranks share the chunks of one replicated tensor and each gets one of
\* two non-chunked replicated paths
C13_Witness ==
    /\ FnReturned("_partition_replicated_paths")
    /\ fn.args.world_size = 2
    /\ \E path \in DOMAIN fn.args.chunking_instructions :
          \A r \in PartRanks : path \in DOMAIN fn.out[r].chunks
    /\ \A r \in PartRanks : Len(fn.out[r].paths) = 1

\* the bytes of the chunks, and of the non-chunked objects, given to rank r
RECURSIVE ChunkBytesIn(_, _)
ChunkBytesIn(chunks, todo) ==
    IF todo = {} THEN 0
    ELSE LET path == CHOOSE q \in todo : TRUE
         IN  SumSeq([j \in DOMAIN chunks[path] |-> ChunkBytes(chunks[path][j])])
             + ChunkBytesIn(chunks, todo \ {path})
ChunkTotal(r) == ChunkBytesIn(fn.out[r].chunks, DOMAIN fn.out[r].chunks)
ObjectTotal(r) ==
    SumSeq([j \in DOMAIN fn.out[r].paths |-> fn.args.nbytes[fn.out[r].paths[j]]])

\* the replicated chunks and the replicated non-chunked paths of the call
ReplicatedChunks ==
    UNION {Range(fn.args.chunking_instructions[path]) :
              path \in Range(fn.args.replicated_paths)
                       \cap DOMAIN fn.args.chunking_instructions}
ReplicatedObjects ==
    Range(fn.args.replicated_paths) \ DOMAIN fn.args.chunking_instructions

Largest(ns) == IF ns = {} THEN 0 ELSE CHOOSE n \in ns : \A k \in ns : k <= n
LargestChunk == Largest({ChunkBytes(chunk) : chunk \in ReplicatedChunks})
LargestPiece ==
    Largest({LargestChunk} \cup {fn.args.nbytes[path] : path \in ReplicatedObjects})

\* C14 as stated: the byte totals of any two ranks, chunks and non-chunked
\* objects together, differ by no more than the largest single piece (read in
\* the statement's favour: the largest chunk or non-chunked object).
C14_TotalsWithinLargestChunk ==
    FnReturned("_partition_replicated_paths") =>
        \A r, q \in PartRanks :
            (ChunkTotal(r) + ObjectTotal(r)) - (ChunkTotal(q) + ObjectTotal(q))
                <= LargestPiece

\* C14 amended: the totals of the chunk bytes given to any two ranks differ by
\* no more than the bytes of the largest single replicated chunk.
C14_ChunkTotalsWithinLargestChunk ==
    FnReturned("_partition_replicated_paths") =>
        \A r, q \in PartRanks : ChunkTotal(r) - ChunkTotal(q) <= LargestChunk

\* chunks of different sizes spread over several ranks with unequal totals
C14_Witness ==
    /\ FnReturned("_partition_replicated_paths")
    /\ fn.args.world_size >= 2
    /\ \E c1, c2 \in ReplicatedChunks : c1.sizes # c2.sizes
    /\ \A r \in PartRanks : ChunkTotal(r) > 0
    /\ \E r, q \in PartRanks : ChunkTotal(r) - ChunkTotal(q) = LargestChunk

\* the chunks of the call, each named by its path and its index in the path's
\* chunking instruction, and the order in which the code meets them
PathPos(p) == CHOOSE i \in DOMAIN fn.args.replicated_paths : fn.args.replicated_paths[i] = p
Items ==
    {<<p, j>> \in Range(fn.args.replicated_paths) \X (1 .. MaxChunks) :
        p \in DOMAIN fn.args.chunking_instructions
        /\ j \in DOMAIN fn.args.chunking_instructions[p]}
ItemChunk(it) == fn.args.chunking_instructions[it[1]][it[2]]
ItemSize(it) == ChunkBytes(ItemChunk(it))
InputBefore(a, b) ==
    PathPos(a[1]) < PathPos(b[1]) \/ (a[1] = b[1] /\ a[2] < b[2])
\* descending byte size, chunks of equal size in input order
ProcessedBefore(a, b) ==
    ItemSize(a) > ItemSize(b) \/ (ItemSize(a) = ItemSize(b) /\ InputBefore(a, b))
\* the rank the partition gives the chunk to
ItemRank(it) ==
    CHOOSE r \in PartRanks :
        /\ it[1] \in DOMAIN fn.out[r].chunks
        /\ ItemChunk(it) \in Range(fn.out[r].chunks[it[1]])
RECURSIVE SumSizes(_)
SumSizes(its) ==
    IF its = {} THEN 0
    ELSE LET it == CHOOSE x \in its : TRUE
         IN  ItemSize(it) + SumSizes(its \ {it})
\* the bytes rank r holds when the code comes to chunk `it`
TotalBefore(r, it) ==
    SumSizes({x \in Items : ProcessedBefore(x, it) /\ ItemRank(x) = r})

\* C27: taking the replicated chunks in descending byte size, chunks of equal
\* size in their input order, each chunk is with the rank whose byte total of
\* the chunks taken before it is smallest, the lowest such rank among ties;
\* the chunks of a path a rank holds are listed in the order they were taken.
C27_GreedyBySize ==
    FnReturned("_partition_replicated_paths") =>
        /\ \A it \in Items, q \in PartRanks :
              /\ TotalBefore(ItemRank(it), it) <= TotalBefore(q, it)
              /\ TotalBefore(ItemRank(it), it) = TotalBefore(q, it) => ItemRank(it) <= q
        /\ \A r \in PartRanks :
              \A p \in DOMAIN fn.out[r].chunks :
                  \A i, j \in DOMAIN fn.out[r].chunks[p] :
                      i < j => \E a, b \in Items :
                                   /\ a[1] = p /\ ItemChunk(a) = fn.out[r].chunks[p][i]
                                   /\ b[1] = p /\ ItemChunk(b) = fn.out[r].chunks[p][j]
                                   /\ ProcessedBefore(a, b)

\* a larger chunk is taken before a smaller one that precedes it in the input,
\* and a chunk goes to the lower of two ranks whose totals are equal and not 0
C27_Witness ==
    /\ FnReturned("_partition_replicated_paths")
    /\ fn.args.world_size >= 2
    /\ \E a, b \in Items : InputBefore(a, b) /\ ProcessedBefore(b, a)
    /\ \E it \in Items, q \in PartRanks :
          /\ q > ItemRank(it)
          /\ TotalBefore(q, it) = TotalBefore(ItemRank(it), it)
          /\ TotalBefore(q, it) > 0

\* the non-chunked replicated paths in the order of the replicated path list
PlainPaths ==
    SelectSeq(fn.args.replicated_paths,
              LAMBDA p : p \notin DOMAIN fn.args.chunking_instructions)
ChunkedOnly ==
    SelectSeq(fn.args.replicated_paths,
              LAMBDA p : p \in DOMAIN fn.args.chunking_instructions)

\* C28: the i-th non-chunked replicated path, counting from 0 in the order of
\* the replicated path list, is with rank i mod world_size and with no other
\* rank, whatever bytes the chunks gave the ranks; and the chunks are assigned
\* as they are when the call has no non-chunked path at all.
C28_RoundRobinByIndex ==
    FnReturned("_partition_replicated_paths") =>
        /\ \A i \in DOMAIN PlainPaths, r \in PartRanks :
              PlainPaths[i] \in Range(fn.out[r].paths) <=>
                  r = (i - 1) % fn.args.world_size
        /\ \A r \in PartRanks :
              /\ \A i, j \in DOMAIN fn.out[r].paths :
                     i < j => \E a, b \in DOMAIN PlainPaths :
                                  /\ a < b
                                  /\ PlainPaths[a] = fn.out[r].paths[i]
                                  /\ PlainPaths[b] = fn.out[r].paths[j]
              /\ fn.out[r].chunks =
                     PartitionReplicatedPaths(ChunkedOnly,
                                              fn.args.chunking_instructions,
                                              fn.args.world_size)[r].chunks

\* rank 0 holds all the chunk bytes and still gets the first non-chunked path,
\* and the paths wrap around to rank 0 again
C28_Witness ==
    /\ FnReturned("_partition_replicated_paths")
    /\ fn.args.world_size = 2
    /\ Len(PlainPaths) = 2
    /\ ChunkTotal(0) > 0 /\ ChunkTotal(1) = 0
    /\ fn.out[0].paths = <<PlainPaths[1]>>
    /\ fn.out[1].paths = <<PlainPaths[2]>>

\* the replicated paths of the call that rank 0 chunks
GatheredChunked ==
    {p \in Range(fn.args.replicated_paths) :
        p \in DOMAIN fn.args.chunking_instructions[0]}
\* the ranks whose own manifest has chunks of p, in the order they were merged
ChunkEmitters(p) ==
    {r \in Ranks : p \in DOMAIN fn.out.object_entries[r]}
PlanLen(plan) == SumSeq([j \in DOMAIN plan |-> plan[j].sizes])

\* C29: after _gather_manifest the entry of a replicated chunked path, under
\* every rank's prefix, lists each chunk of the path's chunk plan exactly once
\* and in ascending offset order, whichever ranks wrote which chunks: the
\* chunks start at 0, each starts where the one before ends, and the last ends
\* at the end of the tensor.
C29_MergedChunksInPlanOrder ==
    FnReturned("_gather_manifest") =>
        \A p \in GatheredChunked, r \in Ranks :
            LET entry == fn.out.manifest[<<r, p>>]
                plan == fn.args.chunking_instructions[0][p]
            IN  /\ entry.type = "ChunkedTensor"
                /\ Len(entry.chunks) = Len(plan)
                /\ \A i \in DOMAIN plan :
                       /\ entry.chunks[i].offsets = plan[i].offsets
                       /\ entry.chunks[i].sizes = plan[i].sizes
                       /\ entry.chunks[i].location =
                              Location("replicated", p, plan[i].offsets)
                /\ entry.chunks[1].offsets = 0
                /\ \A i \in 1 .. (Len(entry.chunks) - 1) :
                       entry.chunks[i + 1].offsets =
                           entry.chunks[i].offsets + entry.chunks[i].sizes
                /\ entry.chunks[Len(entry.chunks)].offsets
                       + entry.chunks[Len(entry.chunks)].sizes = PlanLen(plan)

\* rank 0 wrote the later chunk of a path and rank 1 the earlier one, so the
\* chunks arrive in descending offset order, and the merged list is ascending
C29_Witness ==
    /\ FnReturned("_gather_manifest")
    /\ \E p \in GatheredChunked :
          /\ {0, 1} \subseteq ChunkEmitters(p)
          /\ Len(fn.out.object_entries[0][p].chunks) = 1
          /\ Len(fn.out.object_entries[1][p].chunks) = 1
          /\ fn.out.object_entries[0][p].chunks[1].offsets >
                 fn.out.object_entries[1][p].chunks[1].offsets
          /\ fn.out.manifest[<<0, p>>].chunks[1] = fn.out.object_entries[1][p].chunks[1]
          /\ fn.out.manifest[<<1, p>>].chunks[2] = fn.out.object_entries[0][p].chunks[1]

\* the replicated and the own (non-replicated) paths of rank r in the call
TakeReplicated == Range(fn.args.replicated_paths)
OwnPaths(r) == DOMAIN fn.args.flattened[r] \ TakeReplicated
\* what the partition assigned to rank r among the replicated paths
AssignedChunks(r) ==
    {<<p, c>> \in TakeReplicated \X UNION {Range(pl) : pl \in ChunkPlans} :
        p \in DOMAIN fn.out.result[r].chunks /\ c \in Range(fn.out.result[r].chunks[p])}
AssignedPaths(r) == Range(fn.out.result[r].paths) \cap TakeReplicated
\* where rank r writes: the locations of its write requests
WrittenLocations(r) == {q.path : q \in fn.out.write_reqs[r]}
\* the locations rank r is to write
OwnLocations(r) ==
    {Location(ToString(r), p, c.offsets) :
        <<p, c>> \in {<<p, c>> \in OwnPaths(r) \X UNION {Range(pl) : pl \in ChunkPlans} :
                        /\ p \in DOMAIN fn.args.chunking_instructions[r]
                        /\ c \in Range(fn.args.chunking_instructions[r][p])}}
    \cup {Location("sharded", p, sh.offsets) :
            <<p, sh>> \in UNION {{p} \X fn.args.flattened[r][p].shards :
                                   p \in {q \in OwnPaths(r) :
                                             fn.args.flattened[r][q].type = "sharded"}}}
AssignedLocations(r) ==
    {Location("replicated", a[1], a[2].offsets) : a \in AssignedChunks(r)}
\* element i (from 0) of tensor p as rank r holds it is in a write request of
\* rank q under `prefix`, with the rank's value
ElementWritten(r, p, i, q, prefix) ==
    \E w \in fn.out.write_reqs[q] :
        /\ w.path[1] = prefix /\ w.path[2] = p
        /\ w.path[3] <= i /\ i < w.path[3] + Len(w.buf)
        /\ w.buf[i - w.path[3] + 1] = fn.args.flattened[r][p].data[i + 1]
\* the value of path p of rank r is written by some rank
PathWritten(r, p) ==
    LET obj == fn.args.flattened[r][p]
        writers == IF p \in TakeReplicated THEN Ranks ELSE {r}
        prefix == IF p \in TakeReplicated THEN "replicated" ELSE ToString(r)
    IN  IF obj.type = "int"
        THEN \E q \in writers :
                /\ p \in DOMAIN fn.out.object_entries[q]
                /\ fn.out.object_entries[q][p].type = "Primitive"
                /\ fn.out.object_entries[q][p].value = obj.v
        ELSE IF obj.type = "tensor"
        THEN \A i \in 0 .. (Len(obj.data) - 1) :
                \E q \in writers : ElementWritten(r, p, i, q, prefix)
        ELSE \A sh \in obj.shards :
                [path |-> Location("sharded", p, sh.offsets), buf |-> sh.data]
                    \in fn.out.write_reqs[r]

\* C30: in a take, rank r prepares exactly its own non-replicated paths, each
\* once (every chunk of a tensor, every local shard of a ShardedTensor, the
\* entry of a primitive), plus the replicated chunks and the replicated
\* non-chunked paths the partition assigned to it, and nothing else; and the
\* value of every path of every rank's flattened state is written by some rank.
C30_RankWritesOwnAndAssigned ==
    FnReturned("_gather_manifest") =>
        /\ \A r \in Ranks :
              /\ DOMAIN fn.out.object_entries[r] =
                     OwnPaths(r) \cup AssignedPaths(r)
                         \cup {a[1] : a \in AssignedChunks(r)}
              /\ WrittenLocations(r) = OwnLocations(r) \cup AssignedLocations(r)
              /\ \A i, j \in DOMAIN fn.out.result[r].paths :
                     fn.out.result[r].paths[i] = fn.out.result[r].paths[j] => i = j
              /\ Range(fn.out.result[r].paths) \cap DOMAIN fn.out.result[r].chunks = {}
              /\ \A w1, w2 \in fn.out.write_reqs[r] : w1.path = w2.path => w1 = w2
        /\ \A r \in Ranks : \A p \in DOMAIN fn.args.flattened[r] : PathWritten(r, p)

\* both ranks write chunks of a replicated tensor, rank 1 also writes a tensor
\* of its own under its own prefix, and a ShardedTensor only rank 0 holds is
\* written by rank 0 alone
C30_Witness ==
    /\ FnReturned("_gather_manifest")
    /\ \A r \in {0, 1} : AssignedChunks(r) # {}
    /\ \E p \in OwnPaths(1) :
          /\ fn.args.flattened[1][p].type = "tensor"
          /\ \E q \in WrittenLocations(1) : q[1] = "1" /\ q[2] = p
    /\ \E p \in OwnPaths(0) \ OwnPaths(1) :
          /\ fn.args.flattened[0][p].type = "sharded"
          /\ \E q \in WrittenLocations(0) : q[2] = p
          /\ \A q \in WrittenLocations(1) : q[2] # p

\* the chunks of `chunks` that hold element i
ChunksHolding(chunks, i) ==
    {j \in DOMAIN chunks : chunks[j].offsets <= i /\ i < chunks[j].offsets + chunks[j].sizes}

ReplicatedPart(result) ==
    LET replicated_set == Range(fn.args.replicated_paths)
    IN  [chunks |-> [p \in DOMAIN result.chunks \cap replicated_set |-> result.chunks[p]],
         paths |-> SelectSeq(result.paths, LAMBDA p : p \in replicated_set)]

\* the ranks whose partition result holds `chunk` of path p
ChunkWriters(p, chunk) ==
    {r \in Ranks : p \in DOMAIN fn.out.result[r].chunks
                    /\ chunk \in Range(fn.out.result[r].chunks[p])}

\* C26 as stated: every rank runs _partition_replicated_paths itself and uses
\* the assignment its own run produced.
C26_EveryRankPartitions ==
    FnReturned("_partition_logical_paths") =>
        \A r \in Ranks :
            /\ fn.out.all[r].ran
            /\ ReplicatedPart(fn.out.result[r]) =
                   PartitionReplicatedPaths(fn.args.replicated_paths,
                                            fn.args.chunking_instructions[r],
                                            WorldSize)[r]

\* C26 amended: rank 0 alone runs _partition_replicated_paths, on its own
\* chunking instructions; the assignment a rank uses for the replicated paths
\* is the element of rank 0's result scattered to it, so that every chunk of
\* rank 0's plan of a replicated path is with exactly one rank, whatever plan
\* the other ranks computed for the path.
C26_RankZeroPartitions ==
    FnReturned("_partition_logical_paths") =>
        /\ \A r \in Ranks : fn.out.all[r].ran <=> r = 0
        /\ \A r \in Ranks :
              ReplicatedPart(fn.out.result[r]) = fn.out.all[0].results[r]
        /\ \A p \in Range(fn.args.replicated_paths)
                      \cap DOMAIN fn.args.chunking_instructions[0] :
              /\ \A chunk \in Range(fn.args.chunking_instructions[0][p]) :
                     Cardinality(ChunkWriters(p, chunk)) = 1
              /\ \A r \in Ranks :
                     p \in DOMAIN fn.out.result[r].chunks =>
                         Range(fn.out.result[r].chunks[p]) \subseteq
                             Range(fn.args.chunking_instructions[0][p])

\* a rank other than 0 whose own plan of a replicated tensor differs from rank
\* 0's gets a chunk of rank 0's plan, next to a chunk plan of its own for a
\* tensor that is not replicated
C26_Witness ==
    /\ FnReturned("_partition_logical_paths")
    /\ \E r \in Ranks \ {0}, p \in Range(fn.args.replicated_paths) :
          /\ p \in DOMAIN fn.out.result[r].chunks
          /\ fn.args.chunking_instructions[r][p] # fn.args.chunking_instructions[0][p]
          /\ \E chunk \in Range(fn.out.result[r].chunks[p]) :
                 chunk \notin Range(fn.args.chunking_instructions[r][p])
          /\ \E q \in DOMAIN fn.out.result[r].chunks :
                 q \notin Range(fn.args.replicated_paths)

\* ======================================================================
\* Restore into an application of another world size.  A snapshot taken by the
\* WorldSize ranks of `app` is restored by the ranks 0 .. world-1 of a new
\* application whose app state holds two statefuls, key by key.
\* ======================================================================
\* the statefuls of the app state and the keys of their state dicts
StatefulPaths == [emb |-> <<"e">>, model |-> <<"n", "w">>]
\* sorted(...) of the stateful keys
SortedKeys == <<"emb", "model">>
\* the app states a rank may pass to restore
KeyChoices == {{"emb", "model"}, {"emb"}, {"model"}}

\* _gather_keys: the sorted union of every rank's keys
GatherKeys(keys) ==
    SelectSeq(SortedKeys, LAMBDA key : \E r \in DOMAIN keys : key \in keys[r])

\* a rank that reads the entries available to rank 0
AvailableToRankZero(manifest, rank) == GetAvailableEntries(manifest, 0)

\* get_available_entries(manifest=self.metadata.manifest, rank=rank) of restore
\* and of read_object
AvailableEntries(manifest, rank) == GetAvailableEntries(manifest, rank)

\* stateful.state_dict() flattened under the stateful's key
FlattenStateful(state, key) ==
    [p \in Range(StatefulPaths[key]) \cap DOMAIN state |-> state[p]]

\* the first check of the loop of _load_stateful: a requested path is missing
\* from available_entries
PathUnavailable(flattened, available_entries) ==
    \E p \in DOMAIN flattened : p \notin DOMAIN available_entries

\* the complete snapshot of the WorldSize ranks of `app`
SavedMetadata == TakeMetadata(app, CoalesceReplicated(hints))
RECURSIVE SavedObjects(_)
SavedObjects(n) ==
    IF n = 0 THEN <<>>
    ELSE WriteAll(SavedObjects(n - 1),
                  TakeWriteReqs(n - 1, app, CoalesceReplicated(hints)))

\* the ranks of the restoring application
NewRanks == IF job.op = "restore" THEN 0 .. (job.world - 1) ELSE {}

\* the obj_out a caller passes to read_object for a path: nothing for the int,
\* a dense tensor of other values for a tensor or a ShardedTensor, or a
\* ShardedTensor of the caller's own layout for a ShardedTensor
ObjOutChoices(path) ==
    IF path = "n" THEN {[type |-> "none"]}
    ELSE {Fresh(0, 1, layout, {})["w"]} \cup
         (IF path = "e" THEN {Fresh(r, 1, l, {})["e"] : r \in Ranks, l \in Layouts}
          ELSE {})

\* a read_object that hands obj_out back without running the read requests
ReadObjectSkipsReads(metadata, objs, rank, unranked_path, obj_out) ==
    LET manifest == AvailableEntries(metadata.manifest, rank)
    IN  IF unranked_path \notin DOMAIN manifest
        THEN [raised |-> TRUE, entry |-> [type |-> "none"], out |-> [type |-> "none"],
              opened |-> 0, closed |-> 0]
        ELSE [raised |-> FALSE, entry |-> manifest[unranked_path], out |-> obj_out,
              opened |-> 1, closed |-> 1]

\* Snapshot.read_object("<rank>/<unranked_path>", obj_out): the entry comes
\* from the entries available to the rank of the path; a primitive is returned
\* from its entry, anything else is read into obj_out.  `opened` and `closed`
\* count the event loops and storage plugins the call created and closed: a
\* missing path raises before they are created, the return of a primitive
\* comes after their creation and before sync_close() and event_loop.close().
ReadObject(metadata, objs, rank, unranked_path, obj_out) ==
    LET manifest == AvailableEntries(metadata.manifest, rank)
    IN  IF unranked_path \notin DOMAIN manifest
        THEN [raised |-> TRUE, entry |-> [type |-> "none"], out |-> [type |-> "none"],
              opened |-> 0, closed |-> 0]
        ELSE LET entry == manifest[unranked_path]
             IN  IF entry.type = "Primitive"
                 THEN [raised |-> FALSE, entry |-> entry, out |-> IntVal(entry.value),
                       opened |-> 1, closed |-> 0]
                 ELSE [raised |-> FALSE, entry |-> entry,
                       out |-> ReadEntry(entry, obj_out, objs),
                       opened |-> 1, closed |-> 1]

InitElastic ==
    /\ limit = MaxTakes
    /\ hints \in [Ranks -> HintChoices]
    /\ layout \in Layouts
    /\ app = [r \in Ranks |-> Fresh(r, 0, layout, Shared)]
    /\ InitCommon
    /\ fn = NoFn
    /\ run = NoRun
    /\ LET metadata == SavedMetadata
           objs == SavedObjects(WorldSize)
       IN
       \/ \E rank \in 0 .. (MaxWorld - 1), path \in Range(FlatKeys) :
          \E obj_out \in ObjOutChoices(path) :
              job = [op |-> "read_object", rank |-> rank, path |-> path,
                     metadata |-> metadata, objs |-> objs, obj_out |-> obj_out,
                     done |-> FALSE, raised |-> FALSE,
                     entry |-> [type |-> "none"], out |-> [type |-> "none"],
                     opened |-> 0, closed |-> 0]
       \/ /\ layout = [i \in 0 .. (TensorLen - 1) |-> i % WorldSize]
          /\ \E n \in 1 .. MaxWorld :
             \E l \in [0 .. (TensorLen - 1) -> 0 .. (n - 1)],
                ks \in [0 .. (n - 1) -> KeyChoices] :
              job = [op |-> "restore",
                     world |-> n,
                     metadata |-> metadata,
                     objs |-> objs,
                     original |-> [r \in 0 .. (n - 1) |-> Fresh(r, 1, l, {})],
                     target |-> [r \in 0 .. (n - 1) |-> Fresh(r, 1, l, {})],
                     keys |-> ks,
                     global_keys |-> <<>>,
                     available |-> [r \in 0 .. (n - 1) |-> <<>>],
                     pc |-> [r \in 0 .. (n - 1) |-> [at |-> "start", i |-> 0]],
                     loaded |-> [r \in 0 .. (n - 1) |-> <<>>],
                     res |-> [r \in 0 .. (n - 1) |-> "none"]]

\* restore up to the loop: _gather_keys is a collective of the new world, then
\* each rank computes its available entries
ElasticGatherKeys ==
    /\ job.op = "restore"
    /\ \A r \in NewRanks : job.pc[r].at = "start"
    /\ job' = [job EXCEPT
                  !.global_keys = GatherKeys(job.keys),
                  !.available = [r \in NewRanks |->
                                    AvailableEntries(job.metadata.manifest, r)],
                  !.pc = [r \in NewRanks |-> [at |-> "load", i |-> 1]]]
    /\ UNCHANGED <<input, calls, sync, thread, disk, seen, fn, run>>

\* _load_stateful on rank r for the next key of global_keys
ElasticLoadStateful(r) ==
    /\ job.op = "restore"
    /\ job.pc[r].at = "load"
    /\ LET i == job.pc[r].i
           key == job.global_keys[i]
           available_entries == job.available[r]
           flattened == FlattenStateful(job.target[r], key)
       IN  IF key \notin job.keys[r]
           THEN job' = [job EXCEPT !.pc[r] = [at |-> "barrier", i |-> i]]
           ELSE IF PathUnavailable(flattened, available_entries)
           THEN job' = [job EXCEPT !.pc[r] = [at |-> "raised", i |-> i],
                                   !.res[r] = "path_unavailable"]
           ELSE IF LoadRaises(flattened, available_entries, job.objs)
           THEN job' = [job EXCEPT !.pc[r] = [at |-> "raised", i |-> i],
                                   !.res[r] = "read_failed"]
           ELSE job' = [job EXCEPT
                           !.pc[r] = [at |-> "barrier", i |-> i],
                           !.loaded[r] = Append(@, key),
                           !.target[r] = LoadStateful(flattened, available_entries,
                                                      job.objs) @@ @]
    /\ UNCHANGED <<input, calls, sync, thread, disk, seen, fn, run>>

\* pg_wrapper.barrier() after a key; after the last key restore returns
ElasticBarrier ==
    /\ job.op = "restore"
    /\ \E i \in 1 .. Len(job.global_keys) :
          /\ \A r \in NewRanks : job.pc[r] = [at |-> "barrier", i |-> i]
          /\ job' = [job EXCEPT
                        !.pc = [r \in NewRanks |->
                                   IF i = Len(job.global_keys)
                                   THEN [at |-> "returned", i |-> i]
                                   ELSE [at |-> "load", i |-> i + 1]],
                        !.res = [r \in NewRanks |->
                                    IF i = Len(job.global_keys) THEN "returned"
                                    ELSE job.res[r]]]
    /\ UNCHANGED <<input, calls, sync, thread, disk, seen, fn, run>>

\* Snapshot.read_object("<rank>/<path>", obj_out) from its call to its return
ElasticReadObject ==
    /\ job.op = "read_object"
    /\ ~job.done
    /\ LET got == ReadObject(job.metadata, job.objs, job.rank, job.path, job.obj_out)
       IN  job' = [job EXCEPT !.done = TRUE, !.raised = got.raised,
                              !.entry = got.entry, !.out = got.out,
                              !.opened = got.opened, !.closed = got.closed]
    /\ UNCHANGED <<input, calls, sync, thread, disk, seen, fn, run>>

NextElastic ==
    \/ ElasticGatherKeys
    \/ \E r \in NewRanks : ElasticLoadStateful(r)
    \/ ElasticBarrier
    \/ ElasticReadObject

SpecElastic == InitElastic /\ [][NextElastic]_vars

\* the entries of a snapshot as the take classified them
Shareable(entry) == IsReplicated(entry) \/ entry.type = "ShardedTensor"
SharedPaths(manifest) == {key[2] : key \in {k \in DOMAIN manifest : Shareable(manifest[k])}}

\* C15: at restore or read_object on behalf of rank r, a replicated or sharded
\* entry is available for every r, also for r at or above the world size at
\* save time, and a per-rank entry is available only to the rank that saved it.
C15_AvailableEntries ==
    /\ job.op = "restore" /\ job.global_keys # <<>> =>
          \A r \in NewRanks :
              /\ SharedPaths(job.metadata.manifest) \subseteq DOMAIN job.available[r]
              /\ \A p \in DOMAIN job.available[r] :
                    ~Shareable(job.available[r][p]) =>
                        /\ <<r, p>> \in DOMAIN job.metadata.manifest
                        /\ job.available[r][p] = job.metadata.manifest[<<r, p>>]
    /\ job.op = "read_object" /\ job.done =>
          /\ job.path \in SharedPaths(job.metadata.manifest) => ~job.raised
          /\ ~job.raised /\ ~Shareable(job.entry) =>
                /\ <<job.rank, job.path>> \in DOMAIN job.metadata.manifest
                /\ job.entry = job.metadata.manifest[<<job.rank, job.path>>]

\* a rank that did not exist at save time gets the replicated "w" and the
\* sharded "e" but not the per-rank "n", which rank 0 gets
C15_Witness ==
    /\ job.op = "restore" /\ job.global_keys # <<>>
    /\ job.world > WorldSize
    /\ job.metadata.manifest[<<0, "w">>].replicated
    /\ DOMAIN job.available[WorldSize] = {"w", "e"}
    /\ DOMAIN job.available[0] = {"n", "w", "e"}

\* the paths the snapshot holds as per-rank entries
PerRankPaths(manifest) == {key[2] : key \in DOMAIN manifest} \ SharedPaths(manifest)

\* rank r has been through _load_stateful for a stateful that requests a path
\* persisted as per-rank
RequestedPerRank(r) ==
    \E i \in 1 .. Len(job.global_keys) :
        /\ job.global_keys[i] \in job.keys[r]
        /\ job.pc[r].i > i \/ (job.pc[r].i = i /\ job.pc[r].at # "load")
        /\ Range(StatefulPaths[job.global_keys[i]])
               \cap PerRankPaths(job.metadata.manifest) # {}

\* C16: a restore under a world size different from the one at save time of an
\* app state that requests a path persisted as per-rank fails with the
\* path-unavailable error.
C16_PerRankRestoreFails ==
    job.op = "restore" /\ job.world # job.metadata.world_size =>
        \A r \in NewRanks : RequestedPerRank(r) => job.res[r] = "path_unavailable"

\* C17: when restore fails on a rank because a requested path is not available
\* to it, no stateful of the rank's app state has had load_state_dict called
\* and the app state is as it was before the call.
C17_NoPartialMutation ==
    job.op = "restore" =>
        \A r \in NewRanks :
            job.res[r] = "path_unavailable" =>
                job.loaded[r] = <<>> /\ job.target[r] = job.original[r]

\* the stateful whose path is unavailable is itself left as it was: the check
\* precedes the reads and load_state_dict of that stateful
FailingStatefulUntouched ==
    job.op = "restore" =>
        \A r \in NewRanks :
            job.res[r] = "path_unavailable" =>
                LET key == job.global_keys[job.pc[r].i]
                IN  /\ key \notin Range(job.loaded[r])
                    /\ FlattenStateful(job.target[r], key)
                           = FlattenStateful(job.original[r], key)

\* the paths of the snapshot that hold a tensor or a ShardedTensor
TensorPaths == {"w", "e"}

\* element i of path p as rank src held it when the snapshot was taken (an
\* element of the ShardedTensor is held by the rank that owns it)
SavedElem(src, p, i) ==
    IF p = "w" THEN app[src]["w"].data[i + 1]
    ELSE LET s == CHOOSE s \in UNION {app[r]["e"].shards : r \in Ranks} :
                      s.offsets <= i /\ i < s.offsets + s.sizes
         IN  s.data[i - s.offsets + 1]

\* the elements a tensor or the local shards of a ShardedTensor hold
Elems(obj) ==
    IF obj.type = "tensor" THEN {<<i - 1, obj.data[i]>> : i \in 1 .. Len(obj.data)}
    ELSE UNION {{<<s.offsets + m - 1, s.data[m]>> : m \in 1 .. s.sizes} : s \in obj.shards}

\* C21: read_object on a path that holds a tensor or a ShardedTensor, with the
\* rank segment of a manifest path or, for a replicated or sharded path, with
\* any rank segment, does not raise and leaves in obj_out, element by element
\* and in obj_out's own shape, the values the snapshot was taken from, under
\* whatever layout the ShardedTensor had at save time.
C21_ReadObjectReturnsPersisted ==
    (job.op = "read_object" /\ job.done /\ job.path \in TensorPaths) =>
        LET shared == job.path \in SharedPaths(job.metadata.manifest)
        IN  (shared \/ <<job.rank, job.path>> \in DOMAIN job.metadata.manifest) =>
                /\ ~job.raised
                /\ job.out.type = job.obj_out.type
                /\ {e[1] : e \in Elems(job.out)} = {e[1] : e \in Elems(job.obj_out)}
                /\ job.out.type = "sharded" =>
                       ShardShape(job.out) = ShardShape(job.obj_out)
                /\ \A src \in (IF shared THEN Ranks ELSE {job.rank}) :
                       \A e \in Elems(job.out) : e[2] = SavedElem(src, job.path, e[1])

\* a ShardedTensor whose elements two ranks saved is read into a dense tensor
\* under the rank segment of a rank that did not exist at save time
C21_Witness ==
    /\ job.op = "read_object" /\ job.done /\ ~job.raised
    /\ job.path = "e" /\ job.rank = WorldSize
    /\ job.obj_out.type = "tensor"
    /\ layout[0] # layout[1]
    /\ job.out # job.obj_out
    /\ Len(job.out.data) = TensorLen

\* ======================================================================
\* The I/O scheduler executing the requests of one rank: the write requests of
\* _take_impl, the read requests of _load_stateful or of read_object.
\* ======================================================================
MaxReqs == 3
MaxReqBytes == 3
MaxBudget == 3

\* the memory budget of a process, from get_process_memory_budget_bytes or, in
\* read_object, from the caller
BudgetChoices == 1 .. MaxBudget

\* the buffer sizes of the requests of a batch
CostChoices == UNION {[1 .. n -> 1 .. MaxReqBytes] : n \in 1 .. MaxReqs}

\* a call that hands the scheduler a budget no batch can reach
NoBudget(memory_budget_bytes) == MaxReqs * MaxReqBytes

\* memory_budget_bytes=memory_budget_bytes of sync_execute_write_reqs and
\* sync_execute_read_reqs: the scheduler gets the budget of the process
ExecuteBudget(memory_budget_bytes) == memory_budget_bytes

\* the buffer bytes of the requests in flight
InFlight(state, cost) ==
    SumSeq([i \in DOMAIN cost |-> IF state[i] = "active" THEN cost[i] ELSE 0])

\* admission: a request joins the active set while the running total stays at
\* or below the budget, or alone when nothing is in flight
CanAdmit(state, cost, budget, i) ==
    /\ state[i] = "ready"
    /\ \/ InFlight(state, cost) + cost[i] <= budget
       \/ \A j \in DOMAIN cost : state[j] # "active"

InitSched ==
    /\ limit = MaxTakes
    /\ hints = [r \in Ranks |-> {"w"}]
    /\ layout = [i \in 0 .. (TensorLen - 1) |-> i % WorldSize]
    /\ app = [r \in Ranks |-> Fresh(r, 0, layout, Shared)]
    /\ InitCommon
    /\ fn = NoFn
    /\ run = NoRun
    /\ \E op \in {"sync_execute_write_reqs", "sync_execute_read_reqs"},
          b \in BudgetChoices, cost \in CostChoices :
          job = [op |-> op,
                 memory_budget_bytes |-> b,
                 budget |-> 0,
                 cost |-> cost,
                 state |-> [i \in DOMAIN cost |-> "ready"],
                 pc |-> "call"]

Scheduling == job.op \in {"sync_execute_write_reqs", "sync_execute_read_reqs"}

\* the call of sync_execute_write_reqs / sync_execute_read_reqs
SchedExecute ==
    /\ Scheduling /\ job.pc = "call"
    /\ job' = [job EXCEPT !.budget = ExecuteBudget(job.memory_budget_bytes),
                          !.pc = "running"]
    /\ UNCHANGED <<input, calls, sync, thread, disk, seen, fn, run>>

\* the scheduler admits request i
SchedAdmit(i) ==
    /\ Scheduling /\ job.pc = "running"
    /\ i \in DOMAIN job.cost
    /\ CanAdmit(job.state, job.cost, job.budget, i)
    /\ job' = [job EXCEPT !.state[i] = "active"]
    /\ UNCHANGED <<input, calls, sync, thread, disk, seen, fn, run>>

\* request i finishes and gives its buffer back; the batch is complete when
\* every request has finished
SchedFinish(i) ==
    /\ Scheduling /\ job.pc = "running"
    /\ i \in DOMAIN job.cost
    /\ job.state[i] = "active"
    /\ job' = [job EXCEPT !.state[i] = "done",
                          !.pc = IF \A j \in DOMAIN job.cost \ {i} : job.state[j] = "done"
                                 THEN "complete" ELSE "running"]
    /\ UNCHANGED <<input, calls, sync, thread, disk, seen, fn, run>>

\* request i fails: the storage error aborts the batch, nothing more is admitted
SchedFail(i) ==
    /\ Scheduling /\ job.pc = "running"
    /\ i \in DOMAIN job.cost
    /\ job.state[i] = "active"
    /\ job' = [job EXCEPT !.state[i] = "failed", !.pc = "raised"]
    /\ UNCHANGED <<input, calls, sync, thread, disk, seen, fn, run>>

NextSched ==
    \/ SchedExecute
    \/ \E i \in 1 .. MaxReqs : SchedAdmit(i)
    \/ \E i \in 1 .. MaxReqs : SchedFinish(i)
    \/ \E i \in 1 .. MaxReqs : SchedFail(i)

SpecSched == InitSched /\ [][NextSched]_vars

\* the requests in flight
ActiveReqs == {i \in DOMAIN job.cost : job.state[i] = "active"}

\* C23: while the scheduler executes a batch, the buffer sizes of the requests
\* in flight sum to at most the memory budget of the process, unless exactly
\* one request is in flight and its size alone exceeds the budget.
C23_InFlightWithinBudget ==
    Scheduling =>
        \/ InFlight(job.state, job.cost) <= job.memory_budget_bytes
        \/ \E i \in ActiveReqs :
              ActiveReqs = {i} /\ job.cost[i] > job.memory_budget_bytes

\* two requests in flight fill the budget while a third one waits for room
C23_Witness ==
    /\ Scheduling
    /\ Cardinality(ActiveReqs) = 2
    /\ InFlight(job.state, job.cost) = job.memory_budget_bytes
    /\ \E i \in DOMAIN job.cost :
          /\ job.state[i] = "ready"
          /\ ~CanAdmit(job.state, job.cost, job.budget, i)

\* a request larger than the budget is in flight alone and the others wait
C23_OversizeAlone ==
    /\ Scheduling
    /\ \E i \in ActiveReqs :
          /\ ActiveReqs = {i} /\ job.cost[i] > job.memory_budget_bytes
          /\ \E j \in DOMAIN job.cost : job.state[j] = "ready"

\* ======================================================================
\* The manifest a Snapshot object caches and the copies it hands out.  The
\* objects live in a heap: a dict maps the manifest paths to references of
\* entry objects, so that two names of one object see each other's changes.
\* ======================================================================
\* get_manifest calls, and in-place changes the caller makes to what it got
MaxCopies == 2
MaxEdits == 2

\* the manifest value a dict object denotes
Resolve(dicts, entries, d) == [key \in DOMAIN dicts[d] |-> entries[dicts[d][key]]]

\* the objects of a manifest: one entry object per path, except that
\* _gather_manifest puts one and the same object under every rank's prefix of
\* a replicated path
EntryObjects(manifest) ==
    LET pos(p) == CHOOSE i \in 1 .. Len(FlatKeys) : FlatKeys[i] = p
        before(j, k) == j[1] < k[1] \/ (j[1] = k[1] /\ pos(j[2]) <= pos(k[2]))
        owner(key) == IF IsReplicated(manifest[key])
                      THEN CHOOSE k \in DOMAIN manifest :
                               /\ k[2] = key[2]
                               /\ \A j \in DOMAIN manifest : j[2] = key[2] => k[1] <= j[1]
                      ELSE key
        owners == {owner(key) : key \in DOMAIN manifest}
        ord(k) == Cardinality({j \in owners : before(j, k)})
    IN  [dict |-> [key \in DOMAIN manifest |-> ord(owner(key))],
         entries |-> [i \in 1 .. Cardinality(owners) |->
                         manifest[CHOOSE k \in owners : ord(k) = i]]]

\* a copy that is a new dict of the same entry objects
ShallowCopy(dicts, entries, d) ==
    [dicts |-> Append(dicts, dicts[d]), entries |-> entries, ref |-> Len(dicts) + 1]

\* copy.deepcopy(self.metadata.manifest): a new dict of new entry objects, one
\* per entry object of the original
DeepCopy(dicts, entries, d) ==
    LET old == {dicts[d][key] : key \in DOMAIN dicts[d]}
        ord(e) == Cardinality({x \in old : x <= e})
    IN  [dicts |-> Append(dicts, [key \in DOMAIN dicts[d] |->
                                     Len(entries) + ord(dicts[d][key])]),
         entries |-> entries \o [i \in 1 .. Cardinality(old) |->
                                    entries[CHOOSE e \in old : ord(e) = i]],
         ref |-> Len(dicts) + 1]

\* Snapshot.metadata: the cached _metadata, read from the metadata file on
\* first use
MetadataProperty(j) ==
    IF j.cached # 0 THEN j
    ELSE LET objs == EntryObjects(j.file)
         IN  [j EXCEPT !.dicts = Append(j.dicts, [key \in DOMAIN objs.dict |->
                                                    Len(j.entries) + objs.dict[key]]),
                       !.entries = j.entries \o objs.entries,
                       !.cached = Len(j.dicts) + 1]

InitManifest ==
    /\ limit = MaxTakes
    /\ hints = [r \in Ranks |-> {"w"}]
    /\ layout = [i \in 0 .. (TensorLen - 1) |-> i % WorldSize]
    /\ app = [r \in Ranks |-> Fresh(r, 0, layout, Shared)]
    /\ InitCommon
    /\ fn = NoFn
    /\ run = NoRun
    /\ LET objs == EntryObjects(SavedMetadata.manifest)
       IN  \E origin \in {"take", "path"} :
               job = [op |-> "manifest",
                      origin |-> origin,
                      file |-> SavedMetadata.manifest,
                      dicts |-> IF origin = "take" THEN <<objs.dict>> ELSE <<>>,
                      entries |-> IF origin = "take" THEN objs.entries ELSE <<>>,
                      cached |-> IF origin = "take" THEN 1 ELSE 0,
                      returned |-> {},
                      edits |-> 0,
                      last |-> "none",
                      saw |-> <<>>]

\* Snapshot.get_manifest
GetManifest ==
    /\ job.op = "manifest"
    /\ Cardinality(job.returned) < MaxCopies
    /\ LET j == MetadataProperty(job)
           copy == DeepCopy(j.dicts, j.entries, j.cached)
       IN  job' = [j EXCEPT !.dicts = copy.dicts,
                            !.entries = copy.entries,
                            !.returned = @ \cup {copy.ref},
                            !.last = "get_manifest",
                            !.saw = Resolve(copy.dicts, copy.entries, copy.ref)]
    /\ UNCHANGED <<input, calls, sync, thread, disk, seen, fn, run>>

\* restore and read_object read self.metadata.manifest through
\* get_available_entries, which builds a dict of its own
ReadManifest(op) ==
    /\ job.op = "manifest"
    /\ job.last # op
    /\ LET j == MetadataProperty(job)
       IN  job' = [j EXCEPT !.last = op,
                            !.saw = Resolve(j.dicts, j.entries, j.cached)]
    /\ UNCHANGED <<input, calls, sync, thread, disk, seen, fn, run>>

\* the caller deletes a path from a manifest get_manifest returned
CallerDelete(d, key) ==
    /\ job.op = "manifest"
    /\ job.edits < MaxEdits
    /\ d \in job.returned
    /\ key \in DOMAIN job.dicts[d]
    /\ job' = [job EXCEPT !.dicts[d] = [k \in DOMAIN @ \ {key} |-> @[k]],
                          !.edits = @ + 1,
                          !.last = "edit"]
    /\ UNCHANGED <<input, calls, sync, thread, disk, seen, fn, run>>

\* the caller changes in place an entry of a manifest get_manifest returned
CallerSetReplicated(d, key) ==
    /\ job.op = "manifest"
    /\ job.edits < MaxEdits
    /\ d \in job.returned
    /\ key \in DOMAIN job.dicts[d]
    /\ job' = [job EXCEPT !.entries[job.dicts[d][key]].replicated = ~@,
                          !.edits = @ + 1,
                          !.last = "edit"]
    /\ UNCHANGED <<input, calls, sync, thread, disk, seen, fn, run>>

NextManifest ==
    \/ GetManifest
    \/ \E op \in {"restore", "read_object"} : ReadManifest(op)
    \/ \E d \in 1 .. (MaxCopies + 1), key \in Ranks \X Range(FlatKeys) : CallerDelete(d, key)
    \/ \E d \in 1 .. (MaxCopies + 1), key \in Ranks \X Range(FlatKeys) :
          CallerSetReplicated(d, key)

SpecManifest == InitManifest /\ [][NextManifest]_vars

\* C24: the manifest the Snapshot caches is the persisted one and stays so
\* through get_manifest, restore and read_object and through every change the
\* caller makes to a manifest get_manifest returned; each of the three sees
\* the persisted manifest.
C24_CachedManifestUnchanged ==
    job.op = "manifest" =>
        /\ job.cached # 0 => Resolve(job.dicts, job.entries, job.cached) = job.file
        /\ job.last \in {"get_manifest", "restore", "read_object"} => job.saw = job.file
        /\ job.cached \notin job.returned

\* the caller has deleted a path from one returned manifest and changed an
\* entry of another, and a restore that follows sees the persisted manifest
C24_Witness ==
    /\ job.op = "manifest"
    /\ job.last = "restore"
    /\ \E d, e \in job.returned :
          /\ d # e
          /\ DOMAIN job.dicts[d] # DOMAIN job.file
          /\ DOMAIN job.dicts[e] = DOMAIN job.file
          /\ Resolve(job.dicts, job.entries, e) # job.file
    /\ job.saw = job.file

\* ======================================================================
\* One call of take, async_take or restore, statement by statement, on the
\* ranks of the process group.  run.log[r] lists what rank r has done.
\* ======================================================================
MaxRng == 1
\* the values of the process's random number generator state
RngValues == 0 .. MaxRng
\* no RNG state captured
NoRng == MaxRng + 1
\* the RNG state held by the snapshot a restore reads
SavedRng == MaxRng

\* app states: key -> kind of the value ("stateful", an RNGState "rng", or a
\* value that is not a Stateful, "other")
AppChoices ==
    {[a |-> "stateful", b |-> "stateful"],
     [a |-> "stateful", b |-> "stateful", r1 |-> "rng"],
     [b |-> "stateful", r1 |-> "rng"],
     [a |-> "stateful", r1 |-> "rng", r2 |-> "rng"],
     [a |-> "stateful", b |-> "other"],
     [a |-> "other", r1 |-> "rng", r2 |-> "rng"]}

\* the keys an app state may hold, sorted
AppKeys == <<"a", "b", "r1", "r2">>

\* a validation that accepts every value
AcceptsAll(app_state) == FALSE

\* _validate_app_state raises TypeError: a value is not a Stateful
ValidateRaises(app_state) == \E key \in DOMAIN app_state : app_state[key] = "other"

\* rng_state_items of _pop_rng_state
RngStateItems(app_state) == {key \in DOMAIN app_state : app_state[key] = "rng"}

\* a _pop_rng_state that takes the first RNGState however many there are
PopsFirst(app_state) == FALSE

\* _pop_rng_state raises RuntimeError: len(rng_state_items) > 1
PopRaises(app_state) == Cardinality(RngStateItems(app_state)) > 1

\* the key of the RNGState _pop_rng_state returns, "none" for None
PoppedKey(app_state) ==
    IF RngStateItems(app_state) = {} THEN "none"
    ELSE CHOOSE key \in RngStateItems(app_state) :
             \A other \in RngStateItems(app_state) :
                 \E i, j \in DOMAIN AppKeys : i <= j /\ AppKeys[i] = key /\ AppKeys[j] = other

\* app_state after _pop_rng_state deleted the RNGState
Remaining(app_state) == DOMAIN app_state \ {PoppedKey(app_state)}

\* a reload that leaves the RNG state as the state_dict() calls left it
KeepPerturbed(current, rng_state_dict) == current

\* stateful.load_state_dict(rng_state_dict) of the RNGState
LoadRngState(current, rng_state_dict) == rng_state_dict

\* a loop whose barrier is entered only by the ranks that hold the key
BarrierIfOwned(key, keys) == key \in keys

\* pg_wrapper.barrier() of the loops over global_keys: it follows the `if key
\* in app_state` of _take_impl and the _load_stateful of restore, whether or
\* not the rank holds the key
EntersBarrier(key, keys) == TRUE

At(label) == [at |-> label, i |-> 0]
AtKey(label, i) == [at |-> label, i |-> i]
\* a loop after which the RNGState is left as the loop left it
AfterKeySkipsReload(i) == IF i < Len(run.global_keys) THEN AtKey("key", i + 1) ELSE At("rest")

\* where a rank goes after the i-th key of global_keys
AfterKey(i) == IF i < Len(run.global_keys) THEN AtKey("key", i + 1) ELSE At("rng_reload")

InitRun ==
    /\ limit = MaxTakes
    /\ hints = [r \in Ranks |-> {"w"}]
    /\ layout = [i \in 0 .. (TensorLen - 1) |-> i % WorldSize]
    /\ app = [r \in Ranks |-> Fresh(r, 0, layout, Shared)]
    /\ InitCommon
    /\ fn = NoFn
    /\ job = NoJob
    /\ \E op \in {"take", "async_take", "restore"},
          app_state \in [Ranks -> AppChoices],
          rng \in [Ranks -> RngValues] :
          run = [op |-> op,
                 app_state |-> app_state,
                 rng0 |-> rng,
                 rng |-> rng,
                 rng_state_item |-> [r \in Ranks |-> "none"],
                 rng_state_dict |-> [r \in Ranks |-> NoRng],
                 perturbed |-> [r \in Ranks |-> FALSE],
                 global_keys |-> <<>>,
                 barriers |-> [r \in Ranks |-> 0],
                 pc |-> [r \in Ranks |-> At("validate")],
                 res |-> [r \in Ranks |-> "none"],
                 log |-> [r \in Ranks |-> <<>>]]

Running(r, label) == run.op # "none" /\ run.pc[r].at = label
Logged(r, events) == [run.log EXCEPT ![r] = @ \o events]
EveryLogged(events) == [r \in Ranks |-> run.log[r] \o events]
RunFrame == UNCHANGED <<input, calls, sync, thread, disk, seen, fn, job>>

\* cls._validate_app_state(app_state), the first statement after the usage log
RunValidate(r) ==
    /\ Running(r, "validate")
    /\ run' = IF ValidateRaises(run.app_state[r])
              THEN [run EXCEPT !.pc[r] = At("raised"), !.res[r] = "TypeError",
                               !.log = Logged(r, <<"validate">>)]
              ELSE [run EXCEPT !.pc[r] = At(IF run.op = "restore" THEN "storage"
                                            ELSE "coalesce"),
                               !.log = Logged(r, <<"validate">>)]
    /\ RunFrame

\* _coalesce_path_and_replicated of take and async_take: a broadcast and an
\* all_gather
RunCoalesce ==
    /\ \A r \in Ranks : Running(r, "coalesce")
    /\ run' = [run EXCEPT !.pc = [r \in Ranks |-> At("storage")],
                          !.log = EveryLogged(<<"collective">>)]
    /\ RunFrame

\* url_to_storage_plugin_in_event_loop
RunStorage(r) ==
    /\ Running(r, "storage")
    /\ run' = [run EXCEPT !.pc[r] = At("pop_rng"), !.log = Logged(r, <<"storage">>)]
    /\ RunFrame

\* app_state.copy(); _pop_rng_state(app_state), in _take_impl and in restore
RunPopRngState(r) ==
    /\ Running(r, "pop_rng")
    /\ run' = IF PopRaises(run.app_state[r])
              THEN [run EXCEPT !.pc[r] = At("raised"), !.res[r] = "RuntimeError",
                               !.log = Logged(r, <<"pop_rng">>)]
              ELSE [run EXCEPT
                       !.pc[r] = At(IF run.op = "restore" THEN "gather_keys"
                                    ELSE "rng_capture"),
                       !.rng_state_item[r] = PoppedKey(run.app_state[r]),
                       !.log = Logged(r, <<"pop_rng">>)]
    /\ RunFrame

\* _take_impl: rng_state_dict = stateful.state_dict() of the RNGState
RunRngCapture(r) ==
    /\ Running(r, "rng_capture")
    /\ run' = IF run.rng_state_item[r] = "none"
              THEN [run EXCEPT !.pc[r] = At("gather_keys")]
              ELSE [run EXCEPT !.pc[r] = At("gather_keys"),
                               !.rng_state_dict[r] = run.rng[r],
                               !.log = Logged(r, <<"state_dict_rng">>)]
    /\ RunFrame

\* _gather_keys: an all_gather; restore then reads the available entries from
\* the snapshot metadata
RunGatherKeys ==
    /\ \A r \in Ranks : Running(r, "gather_keys")
    /\ LET global_keys ==
               SelectSeq(AppKeys, LAMBDA key :
                   \E r \in Ranks :
                       key \in Remaining(run.app_state[r]))
       IN  run' = [run EXCEPT
                      !.global_keys = global_keys,
                      !.pc = [r \in Ranks |-> AtKey("key", 1)],
                      !.log = EveryLogged(IF run.op = "restore"
                                          THEN <<"collective", "read_metadata">>
                                          ELSE <<"collective">>)]
    /\ RunFrame

\* the body of the loop over global_keys: state_dict() of the stateful under
\* the key in _take_impl, _load_stateful in restore.  The application's
\* state_dict() may leave any RNG state behind.
RunKey(r) ==
    /\ Running(r, "key")
    /\ LET i == run.pc[r].i
           key == run.global_keys[i]
           next == IF EntersBarrier(key, Remaining(run.app_state[r]))
                   THEN AtKey("barrier", i) ELSE AfterKey(i)
       IN  IF key \notin Remaining(run.app_state[r])
           THEN run' = [run EXCEPT !.pc[r] = next]
           ELSE \E rng \in RngValues :
                    run' = [run EXCEPT
                               !.pc[r] = next,
                               !.rng[r] = rng,
                               !.perturbed[r] = @ \/ rng # run.rng[r],
                               !.log = Logged(r, IF run.op = "restore"
                                                 THEN <<"state_dict", "read",
                                                        "load_state_dict">>
                                                 ELSE <<"state_dict">>)]
    /\ RunFrame

\* pg_wrapper.barrier() at the end of the loop body: the collective completes
\* once every rank of the group has entered it, each from wherever it is
RunKeyBarrier ==
    /\ \A r \in Ranks : Running(r, "barrier")
    /\ run' = [run EXCEPT
                  !.pc = [r \in Ranks |-> AfterKey(run.pc[r].i)],
                  !.barriers = [r \in Ranks |-> run.barriers[r] + 1],
                  !.log = EveryLogged(<<"collective">>)]
    /\ RunFrame

\* after the loop: _take_impl loads rng_state_dict back into the RNGState;
\* restore loads the RNGState from the snapshot
RunRngReload(r) ==
    /\ Running(r, "rng_reload")
    /\ run' = IF run.rng_state_item[r] = "none"
              THEN [run EXCEPT !.pc[r] = At("rest")]
              ELSE IF run.op = "restore"
              THEN [run EXCEPT !.pc[r] = At("rest"),
                               !.rng[r] = LoadRngState(@, SavedRng),
                               !.log = Logged(r, <<"state_dict_rng", "read",
                                                   "load_state_dict_rng">>)]
              ELSE [run EXCEPT !.pc[r] = At("rest"),
                               !.rng[r] = LoadRngState(@, run.rng_state_dict[r]),
                               !.log = Logged(r, <<"load_state_dict_rng">>)]
    /\ RunFrame

\* the rest of restore: close the storage plugin and return
RunRestoreRest(r) ==
    /\ Running(r, "rest")
    /\ run.op = "restore"
    /\ run' = [run EXCEPT !.pc[r] = At("returned"), !.res[r] = "returned"]
    /\ RunFrame

\* the rest of a take: the collectives of _take_impl, the write requests, and
\* in take the barrier, the metadata file written by rank 0, and the return;
\* async_take returns with the writes and the metadata left to the thread
RunTakeRest ==
    /\ \A r \in Ranks : Running(r, "rest")
    /\ run.op # "restore"
    /\ run' = [run EXCEPT
                  !.pc = [r \in Ranks |-> At("returned")],
                  !.res = [r \in Ranks |-> "returned"],
                  !.log = [r \in Ranks |->
                              run.log[r] \o <<"collective", "write">> \o
                              (IF run.op = "take" /\ IsMetadataWriter(r)
                               THEN <<"collective", "metadata">>
                               ELSE IF run.op = "take" THEN <<"collective">>
                               ELSE <<"thread">>)]]
    /\ RunFrame

NextRun ==
    \/ \E r \in Ranks : RunValidate(r)
    \/ RunCoalesce
    \/ \E r \in Ranks : RunStorage(r)
    \/ \E r \in Ranks : RunPopRngState(r)
    \/ \E r \in Ranks : RunRngCapture(r)
    \/ RunGatherKeys
    \/ \E r \in Ranks : RunKey(r)
    \/ RunKeyBarrier
    \/ \E r \in Ranks : RunRngReload(r)
    \/ \E r \in Ranks : RunRestoreRest(r)
    \/ RunTakeRest

SpecRun == InitRun /\ [][NextRun]_vars

\* what the log of a rank may hold
StateDictEvents == {"state_dict", "state_dict_rng", "load_state_dict", "load_state_dict_rng"}
IoEvents == {"read", "read_metadata", "write", "metadata", "thread"}
Did(r, events) == Range(run.log[r]) \cap events # {}
HasNonStateful(r) == \E key \in DOMAIN run.app_state[r] : run.app_state[r][key] = "other"
ManyRngStates(r) ==
    \E k1, k2 \in DOMAIN run.app_state[r] :
        k1 # k2 /\ run.app_state[r][k1] = "rng" /\ run.app_state[r][k2] = "rng"

\* C18: if a value of app_state is not a Stateful, take, async_take and
\* restore raise before the storage plugin is created, before any collective
\* and before any read or write: once past the first statement the rank has
\* raised TypeError and done nothing else.
C18_ValidationFirst ==
    run.op # "none" =>
        \A r \in Ranks :
            HasNonStateful(r) /\ run.pc[r].at # "validate" =>
                /\ run.res[r] = "TypeError"
                /\ ~Did(r, {"storage", "collective"} \cup IoEvents \cup StateDictEvents)

\* a rank raised TypeError while a rank with a valid app state waits in the
\* first collective
C18_Witness ==
    /\ run.op = "async_take"
    /\ \E r, q \in Ranks :
          /\ HasNonStateful(r) /\ run.res[r] = "TypeError"
          /\ ~HasNonStateful(q) /\ run.pc[q].at = "coalesce"

\* C19: with more than one RNGState in app_state, take, async_take and restore
\* fail on that rank; no state_dict() or load_state_dict() was called, no read
\* or write was scheduled, and no metadata is written.
C19_MultipleRngStates ==
    run.op # "none" =>
        \A r \in Ranks :
            ManyRngStates(r) =>
                /\ run.pc[r].at \in {"validate", "coalesce", "storage", "pop_rng", "raised"}
                /\ run.pc[r].at = "raised" => run.res[r] \in {"TypeError", "RuntimeError"}
                /\ ~Did(r, StateDictEvents \cup IoEvents)
                /\ \A q \in Ranks : ~Did(q, {"metadata", "thread", "write"})

\* a rank with two RNGStates raised RuntimeError in take after its storage
\* plugin was created, and the other rank waits in _gather_keys
C19_Witness ==
    /\ run.op = "take"
    /\ \E r, q \in Ranks :
          /\ ManyRngStates(r) /\ run.res[r] = "RuntimeError"
          /\ Did(r, {"storage"})
          /\ run.pc[q].at = "gather_keys"

\* the position of the first and of the last occurrence of an event in a log
FirstAt(log, event) == CHOOSE i \in DOMAIN log : log[i] = event /\ \A j \in 1 .. (i - 1) : log[j] # event
LastAt(log, event) == CHOOSE i \in DOMAIN log : log[i] = event /\ \A j \in (i + 1) .. Len(log) : log[j] # event

\* C20: in _take_impl the RNG state is captured before any other state_dict()
\* and loaded back after the last one, so when take or async_take returns the
\* RNG state equals the one at the call and the one recorded, whatever the
\* other state_dict() calls did to it.
C20_RngStatePreserved ==
    run.op \in {"take", "async_take"} =>
        \A r \in Ranks :
            /\ Did(r, {"state_dict"}) /\ RngStateItems(run.app_state[r]) # {} =>
                  /\ Did(r, {"state_dict_rng"})
                  /\ FirstAt(run.log[r], "state_dict_rng") < FirstAt(run.log[r], "state_dict")
                  /\ Did(r, {"load_state_dict_rng"}) =>
                        LastAt(run.log[r], "state_dict")
                            < FirstAt(run.log[r], "load_state_dict_rng")
            /\ run.res[r] = "returned" /\ RngStateItems(run.app_state[r]) # {} =>
                  /\ run.rng[r] = run.rng0[r]
                  /\ run.rng_state_dict[r] = run.rng0[r]
                  /\ Did(r, {"load_state_dict_rng"})

\* take returned on a rank whose RNG state a state_dict() call had changed
C20_Witness ==
    /\ run.op = "take"
    /\ \E r \in Ranks :
          /\ run.res[r] = "returned"
          /\ RngStateItems(run.app_state[r]) # {}
          /\ run.perturbed[r]
          /\ run.rng[r] = run.rng0[r]

\* how far rank r is in the loop over global_keys: 0 before the loop, i at the
\* i-th key or at its barrier, one past the last key after the loop
LoopPos(r) ==
    IF run.pc[r].at \in {"key", "barrier"} THEN run.pc[r].i
    ELSE IF run.pc[r].at \in {"rng_reload", "rest", "returned"}
         THEN Len(run.global_keys) + 1
         ELSE 0

\* the keys rank r iterates hold: those of its app state without the RNGState
OwnKeys(r) == DOMAIN run.app_state[r] \ RngStateItems(run.app_state[r])

\* the i-th key of AppKeys comes before the j-th
KeyBefore(k1, k2) ==
    \E i, j \in DOMAIN AppKeys : i < j /\ AppKeys[i] = k1 /\ AppKeys[j] = k2

MetadataWritten(k) == metaBy[k] # <<>>

\* Snapshot(path).metadata on a fresh object: _read_snapshot_metadata finds
\* the file under the path of take k
MetadataReadable(k) == storage[tpath[k]].meta # NoMeta

\* C31: when the synchronous take has returned on a rank, whichever rank it
\* is, rank 0 has finished writing the metadata file of that take, and a
\* Snapshot opened on the path can read the metadata.
C31_MetadataWrittenWhenTakeReturns ==
    \A k \in Started, r \in Ranks :
        tmode[k] = "sync" /\ sres[k][r] = "returned" =>
            MetadataWritten(k) /\ MetadataReadable(k)

\* what holds of take: the rank that writes the metadata returns after it
\* wrote it, and a rank returns only after every rank completed its writes
C31_LeaderReturnsAfterWrite ==
    \A k \in Started, r \in Ranks :
        tmode[k] = "sync" /\ sres[k][r] = "returned" =>
            /\ IsMetadataWriter(r) => MetadataWritten(k) /\ MetadataReadable(k)
            /\ \A q \in Ranks : ioState[k][q] = "ok"

\* C32: when wait() has returned a Snapshot on a rank, rank 0 has finished
\* writing the metadata file of that take, so the metadata of the returned
\* Snapshot can be read.
C32_MetadataWrittenWhenWaitReturns ==
    lastCall.op = "wait" /\ lastCall.res = "snapshot" =>
        MetadataWritten(lastCall.k) /\ MetadataReadable(lastCall.k)

\* what holds of wait(): the property for a take that is the only one to its
\* path, and the presence of a metadata file under the path for every take
C32_HoldsForSoleTake ==
    lastCall.op = "wait" /\ lastCall.res = "snapshot" =>
        /\ SoleOnPath(lastCall.k) => MetadataWritten(lastCall.k)
        /\ MetadataReadable(lastCall.k)

\* C33: the store-based barrier of a take is not satisfied by the keys of
\* another take: while rank 0 is past arrive() of take k and before the end
\* of its thread, no other rank is still writing or still about to arrive
\* for take k.
C33_ArriveWaitsForOwnTake ==
    \A k \in Started :
        tmode[k] = "async" /\ tpc[k][LeaderRank] \in {"write_meta", "depart"} =>
            \A q \in PeerRanks : tpc[k][q] \notin {"io", "arrive"}

\* what holds: the barrier of a take that is the only one to its path
C33_HoldsForSoleTake ==
    \A k \in Started :
        /\ tmode[k] = "async" /\ SoleOnPath(k)
        /\ tpc[k][LeaderRank] \in {"write_meta", "depart"}
        => \A q \in PeerRanks : tpc[k][q] \notin {"io", "arrive"}

\* ======================================================================
\* The synchronous take left to itself: every step a rank can take is taken
\* in the end; nothing obliges a write to fail.
\* ======================================================================
NextSync ==
    \/ \E p \in CallPaths : Take(p)
    \/ \E r \in Ranks : SyncStep(r)
    \/ SyncBarrier
    \/ \E r \in Ranks : SyncCompleteFail(r)
    \/ \E r \in Ranks : SyncWriteMetaFail(r)

SyncFairness ==
    /\ \A r \in Ranks : WF_vars(SyncStep(r))
    /\ WF_vars(SyncBarrier)

SpecSync == Init /\ [][NextSync]_vars /\ SyncFairness

\* the call of take k is over on rank r: it returned or it raised
CallOver(k, r) == sres[k][r] \in {"returned", "raised"}

\* C34: when the synchronous take is aborted by an error on one rank, the
\* call of every other rank also returns or raises in the end: no rank stays
\* in the process-group barrier waiting for the rank that raised.
C34_AbortReleasesPeers ==
    \A k \in Takes, r \in Ranks :
        (sres[k][r] = "raised") ~> (\A q \in Ranks : CallOver(k, q))

\* the state the ranks are left in: one raised out of take, another is in the
\* barrier, and no step of any rank is possible
C34_Stuck ==
    \E r, q \in Ranks :
        /\ ntakes > 0
        /\ sres[ntakes][r] = "raised"
        /\ mpc[q] = "barrier"
        /\ ~ENABLED NextSync

\* ======================================================================
\* Storage plugins and event loops: what a call opens and closes.
\* ======================================================================
\* C35: an operation that opens a storage plugin and an event loop closes
\* both exactly once before it returns normally, on every return path: when
\* read_object has returned, it has closed what it opened.
C35_ClosesWhatItOpens ==
    job.op = "read_object" /\ job.done /\ ~job.raised =>
        job.opened = 1 /\ job.closed = job.opened

\* what holds of read_object: the return that follows the reads closes what
\* the call opened, and a call that raises for a missing path opened nothing
C35_ClosesAfterReads ==
    job.op = "read_object" /\ job.done =>
        /\ job.raised => job.opened = 0 /\ job.closed = 0
        /\ ~job.raised /\ job.entry.type # "Primitive" =>
               job.opened = 1 /\ job.closed = 1

\* ======================================================================
\* The assertion of _gather_manifest.
\* ======================================================================
\* the replicated paths of the call that rank 0 does not chunk
GatheredPlain == TakeReplicated \ GatheredChunked
\* the ranks whose local manifest has an entry for path p
Emitters(p) == {r \in Ranks : p \in DOMAIN fn.out.object_entries[r]}

\* C36: in a take whose local manifests come from _partition_logical_paths
\* the assertion of _gather_manifest does not fail: a replicated path that is
\* not chunked is in the local manifest of exactly one rank, and an entry
\* that several ranks emit is a ChunkedTensorEntry on each of them.
C36_OneEmitterPerPlainPath ==
    FnReturned("_gather_manifest") =>
        /\ ~fn.out.raised
        /\ \A p \in GatheredPlain : Cardinality(Emitters(p)) = 1
        /\ \A p \in TakeReplicated :
              Cardinality(Emitters(p)) > 1 =>
                  \A r \in Emitters(p) :
                      fn.out.object_entries[r][p].type = "ChunkedTensor"

\* two replicated paths that are not chunked, one emitted by rank 0 alone and
\* the other by rank 1 alone, each under both rank prefixes after the gather
C36_Witness ==
    /\ FnReturned("_gather_manifest")
    /\ \E p, q \in GatheredPlain :
          /\ Emitters(p) = {0} /\ Emitters(q) = {1}
          /\ \A r \in {0, 1} :
                /\ fn.out.manifest[<<r, p>>] = fn.out.object_entries[0][p]
                /\ fn.out.manifest[<<r, q>>] = fn.out.object_entries[1][q]

\* ======================================================================
\* The RNG state in restore
\* ======================================================================
\* how many times an event occurs in a log
Occurrences(log, event) == Cardinality({i \in DOMAIN log : log[i] = event})

\* C37: in restore the RNGState is loaded after load_state_dict of every other
\* stateful of the rank's app state has completed, so when restore returns
\* the RNG state is the one recorded in the snapshot, whatever the other loads
\* did to it.
C37_RngStateRestoredLast ==
    run.op = "restore" =>
        \A r \in Ranks :
            /\ Did(r, {"load_state_dict_rng"}) =>
                  /\ Occurrences(run.log[r], "load_state_dict") = Cardinality(OwnKeys(r))
                  /\ Did(r, {"load_state_dict"}) =>
                        LastAt(run.log[r], "load_state_dict")
                            < FirstAt(run.log[r], "load_state_dict_rng")
            /\ run.res[r] = "returned" /\ RngStateItems(run.app_state[r]) # {} =>
                  /\ Did(r, {"load_state_dict_rng"})
                  /\ run.rng[r] = SavedRng

\* restore returned on a rank that started with another RNG state than the
\* saved one and whose load_state_dict calls changed the RNG state
C37_Witness ==
    /\ run.op = "restore"
    /\ \E r \in Ranks :
          /\ run.res[r] = "returned"
          /\ RngStateItems(run.app_state[r]) # {}
          /\ Did(r, {"load_state_dict"})
          /\ run.perturbed[r]
          /\ run.rng0[r] # SavedRng
          /\ run.rng[r] = SavedRng

====
